---- MODULE Spec2Model ----
(***************************************************************************)
(* Drift perp-order stream filter (src/filter.js), the Base58 decoder      *)
(* (src/utils/solana.ts), the QuickNode data normalizer                    *)
(* (scripts/compare-instruction-formats.ts), the signed-order decoder      *)
(* (src/utils/drift-decoder.ts), the batch scans of the scripts            *)
(* (scripts/test-filter.ts, scripts/test-filter-with-known-txs.ts) and     *)
(* the discriminator comparison (scripts/compare-discriminators.ts), as    *)
(* state machines.                                                         *)
(*                                                                         *)
(* JavaScript values are records tagged by "kind"; a string is the         *)
(* sequence of its characters, a Buffer the sequence of its bytes.         *)
(***************************************************************************)
EXTENDS Integers, Sequences, FiniteSets, TLC

VARIABLES
    payload,      \* codec: the byte sequence an upstream source encodes
    encoded,      \* codec: the string handed to decodeBase58 / the normalizer
    decoded,      \* codec: what decodeBase58 returned for encoded
    normalized,   \* codec: what quicknodeDataToBuffer returned for encoded
    tx,           \* filter: the transaction under inspection
    matched,      \* filter: outcome of matchesFilter(tx)
    formatted,    \* filter: outcome of formatTransaction(tx, data)
    stream,       \* main: the argument of the last call of main
    result,       \* main: what that call returned
    compiledIx,   \* decoder: the compiled instruction handed to the decoder
    sdkRaises,    \* decoder: whether the SDK collaborator rejects what it is given
    sdkCalls,     \* decoder: the calls made to the SDK collaborator, in order
    signedOrder,  \* decoder: outcome of decodeSignedMsgOrder(compiledIx.data, driftClient)
    decodedInstruction,  \* decoder: outcome of decodeInstruction(compiledIx, ...)
    history,      \* session: the earlier invocations of main, oldest first
    txMessage,    \* message: the transaction message handed to decodeDriftInstructions
    driftInstructions,  \* message: what decodeDriftInstructions returned for it
    script,       \* harness: which script is running
    worklist,     \* harness: the test transactions or blocks to scan, in order
    startup,      \* harness: how the steps before the loop end
    phase,        \* harness: "start", "scan", "settled", "caught" or "exited"
    cursor,       \* harness: position of the next item of the loop
    passCount,    \* harness: the script's counter of the same name
    failCount,    \* harness: the script's counter of the same name
    skippedCount, \* harness: the script's counter of the same name
    log,          \* harness: outcome lines written to the console, in order
    results,      \* harness: the TestResult list of test-filter
    exitStatus,   \* harness: the code given to process.exit
    discriminators1,  \* compare: the instructions found through the first endpoint
    discriminators2,  \* compare: the instructions found through the second endpoint
    comparison    \* compare: what compareInstructions returned for them

vars == <<payload, encoded, decoded, normalized, tx, matched, formatted, stream, result,
          compiledIx, sdkRaises, sdkCalls, signedOrder, decodedInstruction,
          history, txMessage, driftInstructions,
          script, worklist, startup, phase, cursor, passCount, failCount, skippedCount, log,
          results, exitStatus, discriminators1, discriminators2, comparison>>

codecVars == <<payload, encoded, decoded, normalized>>
filterVars == <<tx, matched, formatted>>
mainVars == <<stream, result>>
decoderVars == <<compiledIx, sdkRaises, sdkCalls, signedOrder, decodedInstruction>>
messageVars == <<txMessage, driftInstructions>>
harnessVars == <<script, worklist, startup, phase, cursor, passCount, failCount, skippedCount,
                 log, results, exitStatus>>
compareVars == <<discriminators1, discriminators2, comparison>>
scriptVars == <<history, messageVars, harnessVars, compareVars>>

-----------------------------------------------------------------------------
(* JavaScript values *)

Undefined == [kind |-> "undefined"]
Null == [kind |-> "null"]
Str(chars) == [kind |-> "string", chars |-> chars]
Buf(bytes) == [kind |-> "bytes", bytes |-> bytes]
Arr(items) == [kind |-> "array", items |-> items]

\* A value that no call has produced yet.
NotCalled == [kind |-> "notcalled"]
\* An exception leaving a function (a TypeError in every case modelled here).
Thrown == [kind |-> "throw"]

IsNullish(v) == v.kind \in {"undefined", "null"}

\* v.length as JavaScript evaluates it on a non-nullish value: strings, arrays
\* and Buffers have one, everything else yields undefined (modelled as -1,
\* for which every comparison `>= n` with n >= 0 is false, as with undefined).
LengthOf(v) ==
    CASE v.kind = "string" -> Len(v.chars)
      [] v.kind = "bytes" -> Len(v.bytes)
      [] v.kind = "array" -> Len(v.items)
      [] OTHER -> -1

Reverse(s) == [i \in 1..Len(s) |-> s[Len(s) + 1 - i]]

RECURSIVE LeadingCount(_, _)
\* The number of leading elements of s equal to x.
LeadingCount(s, x) ==
    IF s = <<>> \/ s[1] # x THEN 0 ELSE 1 + LeadingCount(Tail(s), x)

Zeros(n) == [i \in 1..n |-> 0]

\* The first index (0-based) of c in alphabet, or -1: String.prototype.indexOf.
IndexOf(alphabet, c) ==
    IF \E i \in 1..Len(alphabet) : alphabet[i] = c
    THEN (CHOOSE i \in 1..Len(alphabet) :
            alphabet[i] = c /\ \A j \in 1..(i - 1) : alphabet[j] # c) - 1
    ELSE -1

-----------------------------------------------------------------------------
(* src/utils/solana.ts: decodeBase58 *)

BASE58_ALPHABET ==
    <<"1", "2", "3", "4", "5", "6", "7", "8", "9", "A", "B", "C", "D", "E", "F",
      "G", "H", "J", "K", "L", "M", "N", "P", "Q", "R", "S", "T", "U", "V", "W",
      "X", "Y", "Z", "a", "b", "c", "d", "e", "f", "g", "h", "i", "j", "k", "m",
      "n", "o", "p", "q", "r", "s", "t", "u", "v", "w", "x", "y", "z">>

RECURSIVE MulAdd(_, _, _, _, _)
\* One pass of the inner loops of a base conversion over the little-endian
\* digit array `digits`: digits[j] <- (carry + digits[j] * mul) mod base with
\* the quotient carried on, then the remaining carry pushed digit by digit.
MulAdd(digits, j, carry, mul, base) ==
    IF j <= Len(digits)
    THEN LET c == carry + digits[j] * mul
         IN  MulAdd([digits EXCEPT ![j] = c % base], j + 1, c \div base, mul, base)
    ELSE IF carry > 0
         THEN MulAdd(Append(digits, carry % base), j + 1, carry \div base, mul, base)
         ELSE digits

\* An iteration that passes over a character outside the alphabet.
DecodeChar_SkipsForeign(st, char) ==
    IF st.invalid THEN st
    ELSE LET carry == IndexOf(BASE58_ALPHABET, char)
         IN  IF carry < 0 THEN st
             ELSE [invalid |-> FALSE, bytes |-> MulAdd(st.bytes, 1, carry, 58, 256)]

\* One iteration of the for loop of lines 57-71 on the loop state st:
\* [invalid |-> TRUE] stands for `return []`.
DecodeChar(st, char) ==
    IF st.invalid THEN st
    ELSE LET carry == IndexOf(BASE58_ALPHABET, char)
         IN  IF carry < 0 THEN [invalid |-> TRUE, bytes |-> <<>>]
             ELSE [invalid |-> FALSE, bytes |-> MulAdd(st.bytes, 1, carry, 58, 256)]

RECURSIVE DecodeLoop(_, _, _)
\* The iterations i, i+1, ... of that loop from the loop state st.
DecodeLoop(chars, i, st) ==
    IF st.invalid \/ i > Len(chars) THEN st
    ELSE DecodeLoop(chars, i + 1, DecodeChar(st, chars[i]))

decodeBase58_NoLeadingZeros(enc) ==
    IF enc.kind # "string" THEN <<>>
    ELSE LET loop == DecodeLoop(enc.chars, 1, [invalid |-> FALSE, bytes |-> <<>>])
         IN  IF loop.invalid THEN <<>> ELSE Reverse(loop.bytes)

\* decodeBase58(encoded): the decoded bytes; never throws.
decodeBase58(enc) ==
    IF enc.kind # "string" THEN <<>>
    ELSE LET loop == DecodeLoop(enc.chars, 1, [invalid |-> FALSE, bytes |-> <<>>])
         IN  IF loop.invalid THEN <<>>
             ELSE Reverse(loop.bytes \o Zeros(LeadingCount(enc.chars, "1")))

decodeBase58Throws_OnNonString(enc) == enc.kind # "string"

\* decodeBase58 has no throw statement and indexes only strings and its own
\* array, so a call of it never raises.
decodeBase58Throws(enc) == FALSE

-----------------------------------------------------------------------------
(* Collaborators: the encoders and decoders of the runtime and of bs58 *)

RECURSIVE EncodeLoop(_, _, _, _)
\* The base-58 digits, least significant first, after the bytes lo..hi have
\* been shifted into digits, one multiply-and-add pass per byte.  The range is
\* split in halves and the first half is computed before the second is
\* entered (its length is looked at; digits never get fewer).
EncodeLoop(bytes, lo, hi, digits) ==
    IF lo > hi THEN digits
    ELSE IF lo = hi THEN MulAdd(digits, 1, bytes[lo], 256, 58)
    ELSE LET mid == (lo + hi) \div 2
             half == EncodeLoop(bytes, lo, mid, digits)
         IN  IF Len(half) < Len(digits) THEN half ELSE EncodeLoop(bytes, mid + 1, hi, half)

\* bs58.encode: standard Base58, one "1" per leading zero byte, then the
\* base-58 digits of the rest, most significant first.
Base58Encode(bytes) ==
    LET zeros == LeadingCount(bytes, 0)
        rest == SubSeq(bytes, zeros + 1, Len(bytes))
        digits == Reverse(EncodeLoop(rest, 1, Len(rest), <<>>))
    IN  [i \in 1..zeros |-> "1"] \o [i \in 1..Len(digits) |-> BASE58_ALPHABET[digits[i] + 1]]

BASE64_ALPHABET ==
    <<"A", "B", "C", "D", "E", "F", "G", "H", "I", "J", "K", "L", "M", "N", "O",
      "P", "Q", "R", "S", "T", "U", "V", "W", "X", "Y", "Z", "a", "b", "c", "d",
      "e", "f", "g", "h", "i", "j", "k", "l", "m", "n", "o", "p", "q", "r", "s",
      "t", "u", "v", "w", "x", "y", "z", "0", "1", "2", "3", "4", "5", "6", "7",
      "8", "9", "+", "/">>

RECURSIVE Base64Sextets(_)
\* The 6-bit values of the characters before the first "=", characters
\* outside the alphabet skipped.
Base64Sextets(chars) ==
    IF chars = <<>> \/ chars[1] = "=" THEN <<>>
    ELSE LET v == IndexOf(BASE64_ALPHABET, chars[1])
         IN  IF v < 0 THEN Base64Sextets(Tail(chars))
             ELSE <<v>> \o Base64Sextets(Tail(chars))

RECURSIVE Base64Bytes(_)
Base64Bytes(s) ==
    IF Len(s) < 2 THEN <<>>
    ELSE LET b1 == s[1] * 4 + s[2] \div 16
         IN  IF Len(s) = 2 THEN <<b1>>
             ELSE LET b2 == (s[2] % 16) * 16 + s[3] \div 4
                  IN  IF Len(s) = 3 THEN <<b1, b2>>
                      ELSE <<b1, b2, (s[3] % 4) * 64 + s[4]>>
                           \o Base64Bytes(SubSeq(s, 5, Len(s)))

\* Buffer.from(data, "base64") on a string: never throws.
Base64Decode(chars) == Base64Bytes(Base64Sextets(chars))

-----------------------------------------------------------------------------
(* scripts/compare-instruction-formats.ts: quicknodeDataToBuffer *)

\* try { return Buffer.from(decodeBase58(data)) }
\* catch { try { return Buffer.from(data, "base64") } catch { utf-8 } }
\* The inner catch is not modelled as reachable: Buffer.from(string, "base64")
\* does not throw.  Buffer.from(buffer, "base64") copies the buffer.  The copies
\* of this function in scripts/test-filter.ts, test-decode-quicknode.ts and
\* test-filter-with-known-txs.ts differ only in that inner catch.
quicknodeDataToBuffer(data) ==
    IF decodeBase58Throws(data)
    THEN (IF data.kind = "bytes" THEN data.bytes ELSE Base64Decode(data.chars))
    ELSE decodeBase58(data)

\* Whether the call raises: only inside the catch block, where Buffer.from
\* rejects a first argument that is neither a string nor bytes with a
\* TypeError (and so does the utf-8 attempt of the inner catch).
quicknodeDataToBufferThrows(data) ==
    decodeBase58Throws(data) /\ data.kind \notin {"string", "bytes"}

-----------------------------------------------------------------------------
(* src/filter.js *)

DRIFT_PROGRAM_ID == "dRiftyHA39MWEi3m9aunc5MzRF1JYuBsbn6VPcn33UH"

PERP_DISCRIMINATORS_WithoutMake ==
    << <<"P", "e", "6", "2", "S", "h", "Z", "L", "x", "b", "S", "n">>,
       <<"o", "k", "t", "p", "a", "f", "A", "6", "B", "G", "3", "U">>,
       <<"2", "r", "C", "4", "E", "a", "E", "3", "z", "M", "9", "d">>,
       <<"8", "t", "y", "R", "U", "g", "T", "5", "L", "Q", "4", "P">> >>

PERP_DISCRIMINATORS ==
    << <<"P", "e", "6", "2", "S", "h", "Z", "L", "x", "b", "S", "n">>,
       <<"o", "k", "t", "p", "a", "f", "A", "6", "B", "G", "3", "U">>,
       <<"q", "b", "T", "d", "x", "Z", "c", "V", "T", "F", "r", "K">>,
       <<"2", "r", "C", "4", "E", "a", "E", "3", "z", "M", "9", "d">>,
       <<"8", "t", "y", "R", "U", "g", "T", "5", "L", "Q", "4", "P">> >>

\* v?.f : undefined when v is nullish or has no such property.
OptGet(v, f) == IF IsNullish(v) \/ f \notin DOMAIN v THEN Undefined ELSE v[f]

\* JavaScript truthiness of the values modelled.
Truthy(v) ==
    /\ ~IsNullish(v)
    /\ ~(v.kind = "string" /\ v.chars = <<>>)
    /\ ~(v.kind = "number" /\ v.n = 0)

\* chars.substring(from, to), 0-based, end exclusive, clipped to the string.
Substring(chars, from, to) ==
    SubSeq(chars, from + 1, IF to < Len(chars) THEN to ELSE Len(chars))

\* Array.prototype.includes
Includes(list, x) == \E i \in 1..Len(list) : list[i] = x

\* Array.prototype.some over the callback's outcomes, in order: the first
\* outcome other than "false" decides (true, or the exception propagates).
ArraySome(outcomes) ==
    IF \A i \in 1..Len(outcomes) : outcomes[i] = "false" THEN "false"
    ELSE outcomes[CHOOSE i \in 1..Len(outcomes) :
                    outcomes[i] # "false" /\ \A j \in 1..(i - 1) : outcomes[j] = "false"]

ArrayEvery(outcomes) ==
    IF \E i \in 1..Len(outcomes) : outcomes[i] = "TypeError" THEN "TypeError"
    ELSE IF \A i \in 1..Len(outcomes) : outcomes[i] = "true" THEN "true" ELSE "false"

\* The accepted items, last first.
Keep_NewestFirst(items, outcomes) ==
    LET n == Cardinality({i \in 1..Len(items) : outcomes[i] = "true"})
        pos(k) == CHOOSE i \in 1..Len(items) :
                      /\ outcomes[i] = "true"
                      /\ Cardinality({j \in i..Len(items) : outcomes[j] = "true"}) = k
    IN  [k \in 1..n |-> items[pos(k)]]

RECURSIVE Keep(_, _)
\* The items whose outcome is "true", in their original order.
Keep(items, outcomes) ==
    IF items = <<>> THEN <<>>
    ELSE (IF Head(outcomes) = "true" THEN <<Head(items)>> ELSE <<>>)
             \o Keep(Tail(items), Tail(outcomes))

\* Array.prototype.filter: the callback runs on every element, so an exception
\* on any element propagates; otherwise the elements it accepted.
ArrayFilter(items, outcomes) ==
    IF \E i \in 1..Len(outcomes) : outcomes[i] = "TypeError" THEN Thrown
    ELSE Arr(Keep(items, outcomes))

ixPredicate_Prefix10(ix) ==
    IF IsNullish(ix) THEN "TypeError"
    ELSE IF ix.programId # DRIFT_PROGRAM_ID THEN "false"
    ELSE IF IsNullish(ix.data) \/ ~(LengthOf(ix.data) >= 10) THEN "false"
    ELSE IF ix.data.kind # "string" THEN "TypeError"
    ELSE IF \E i \in 1..Len(PERP_DISCRIMINATORS) :
                Substring(PERP_DISCRIMINATORS[i], 0, 10) = Substring(ix.data.chars, 0, 10)
         THEN "true" ELSE "false"

ixPredicate_NoProgramGate(ix) ==
    IF IsNullish(ix) THEN "TypeError"
    ELSE IF IsNullish(ix.data) \/ ~(LengthOf(ix.data) >= 12) THEN "false"
    ELSE IF ix.data.kind # "string" THEN "TypeError"
    ELSE IF Includes(PERP_DISCRIMINATORS, Substring(ix.data.chars, 0, 12))
         THEN "true" ELSE "false"

\* The callback of lines 53-57 (and, word for word, of lines 70-74):
\*   ix.programId === DRIFT_PROGRAM_ID && ix.data?.length >= 12 &&
\*   PERP_DISCRIMINATORS.includes(ix.data.substring(0, 12))
\* "TypeError" when ix is null (ix.programId) or when data has a length of 12
\* or more but no substring method (a Buffer or an array).
ixPredicate(ix) ==
    IF IsNullish(ix) THEN "TypeError"
    ELSE IF ix.programId # DRIFT_PROGRAM_ID THEN "false"
    ELSE IF IsNullish(ix.data) \/ ~(LengthOf(ix.data) >= 12) THEN "false"
    ELSE IF ix.data.kind # "string" THEN "TypeError"
    ELSE IF Includes(PERP_DISCRIMINATORS, Substring(ix.data.chars, 0, 12))
         THEN "true" ELSE "false"

Outcomes(items) == [i \in 1..Len(items) |-> ixPredicate(items[i])]

matchesFilter_NoOptionalChain(t) ==
    IF IsNullish(t) \/ IsNullish(OptGet(t, "transaction"))
       \/ IsNullish(OptGet(t.transaction, "message")) THEN "TypeError"
    ELSE LET instructions == OptGet(t.transaction.message, "instructions")
         IN  IF ~Truthy(instructions) THEN "false"
             ELSE IF instructions.kind # "array" THEN "TypeError"
             ELSE ArraySome(Outcomes(instructions.items))

matchesFilter_Every(t) ==
    IF IsNullish(t) THEN "TypeError"
    ELSE LET instructions == OptGet(OptGet(OptGet(t, "transaction"), "message"), "instructions")
         IN  IF ~Truthy(instructions) THEN "false"
             ELSE IF instructions.kind # "array" THEN "TypeError"
             ELSE ArrayEvery(Outcomes(instructions.items))

\* matchesFilter(tx): "true", "false", or "TypeError" when it raises
\* (tx is null, instructions has no some method, or the callback raises).
matchesFilter(t) ==
    IF IsNullish(t) THEN "TypeError"
    ELSE LET instructions == OptGet(OptGet(OptGet(t, "transaction"), "message"), "instructions")
         IN  IF ~Truthy(instructions) THEN "false"
             ELSE IF instructions.kind # "array" THEN "TypeError"
             ELSE ArraySome(Outcomes(instructions.items))

\* The object literal of lines 75-79.
CopyIx(ix) ==
    [kind |-> "object", programId |-> ix.programId, data |-> ix.data, accounts |-> ix.accounts]

MapCopy(items) == [i \in 1..Len(items) |-> CopyIx(items[i])]

\* The last element instead of the first.
OptLast(v) ==
    IF IsNullish(v) \/ v.kind # "array" \/ v.items = <<>> THEN Undefined
    ELSE v.items[Len(v.items)]

\* v?.[0]
OptFirst(v) ==
    IF IsNullish(v) \/ v.kind # "array" \/ v.items = <<>> THEN Undefined ELSE v.items[1]

\* formatTransaction(tx, data): the record, or Thrown when it raises.
formatTransaction(t, data) ==
    IF IsNullish(t) THEN Thrown
    ELSE LET found == OptGet(OptGet(OptGet(t, "transaction"), "message"), "instructions")
             instructions == IF Truthy(found) THEN found ELSE Arr(<<>>)
             kept == IF instructions.kind # "array" THEN Thrown
                     ELSE ArrayFilter(instructions.items, Outcomes(instructions.items))
         IN  IF kept = Thrown THEN Thrown
             ELSE [kind |-> "object",
                   signature |-> OptFirst(OptGet(OptGet(t, "transaction"), "signatures")),
                   slot |-> OptGet(data, "slot"),
                   blockTime |-> OptGet(data, "blockTime"),
                   success |-> ~Truthy(OptGet(OptGet(t, "meta"), "err")),
                   fee |-> OptGet(OptGet(t, "meta"), "fee"),
                   instructions |-> Arr(MapCopy(kept.items)),
                   logs |-> OptGet(OptGet(t, "meta"), "logMessages")]

\* The statements inside the try block of main: the value returned, or Thrown.
mainTry(s) ==
    IF IsNullish(s) \/ IsNullish(OptGet(s, "data")) THEN Thrown
    ELSE LET data == OptFirst(s.data)
             transactions == OptGet(data, "transactions")
         IN  IF IsNullish(transactions) \/ ~(LengthOf(transactions) > 0) THEN Null
             ELSE IF transactions.kind # "array" THEN Thrown
             ELSE LET verdicts == [i \in 1..Len(transactions.items) |->
                                       matchesFilter(transactions.items[i])]
                      selected == ArrayFilter(transactions.items, verdicts)
                  IN  IF selected = Thrown THEN Thrown
                      ELSE LET records == [i \in 1..Len(selected.items) |->
                                               formatTransaction(selected.items[i], data)]
                           IN  IF \E i \in 1..Len(records) : records[i] = Thrown THEN Thrown
                               ELSE IF Len(records) = 0 THEN Null
                               ELSE [kind |-> "object", matchedTransactions |-> Arr(records)]

main_NoCatch(s) == mainTry(s)

\* main(stream): whatever the try block returns, and null when it raises.
main(s) == IF mainTry(s) = Thrown THEN Null ELSE mainTry(s)

-----------------------------------------------------------------------------
(* src/const.ts *)

\* TEST_TRANSACTIONS, in source order: discriminator is the RPC form (Base64
\* text), discriminatorHex the same 8 bytes, quicknodeDiscriminator the first
\* 12 characters of the QuickNode Streams form.
TEST_TRANSACTIONS ==
    << [name |-> "placeSpotOrder",
        discriminator |-> <<"P", "D", "8", "y", "e", "w", "z", "F", "P", "L", "4", "=">>,
        discriminatorHex |-> <<60, 63, 50, 123, 12, 197, 60, 190>>,
        quicknodeDiscriminator |-> <<"F", "T", "m", "T", "o", "4", "n", "D", "V", "5", "R", "V">>,
        shouldMatch |-> FALSE],
       [name |-> "placePerpOrder",
        discriminator |-> <<"R", "a", "F", "d", "y", "n", "h", "+", "T", "L", "k", "=">>,
        discriminatorHex |-> <<69, 161, 93, 202, 120, 126, 76, 185>>,
        quicknodeDiscriminator |-> <<"P", "e", "6", "2", "S", "h", "Z", "L", "x", "b", "S", "n">>,
        shouldMatch |-> TRUE],
       [name |-> "placeAndTakePerpOrder",
        discriminator |-> <<"1", "T", "M", "B", "u", "2", "z", "c", "5", "u", "A", "=">>,
        discriminatorHex |-> <<213, 51, 1, 187, 108, 220, 230, 224>>,
        quicknodeDiscriminator |-> <<"o", "k", "t", "p", "a", "f", "A", "6", "B", "G", "3", "U">>,
        shouldMatch |-> TRUE],
       [name |-> "placeAndMakePerpOrder",
        discriminator |-> <<"l", "X", "U", "L", "7", "S", "9", "f", "W", "e", "0", "=">>,
        discriminatorHex |-> <<149, 117, 11, 237, 47, 95, 89, 237>>,
        quicknodeDiscriminator |-> <<"q", "b", "T", "d", "x", "Z", "c", "V", "T", "F", "r", "K">>,
        shouldMatch |-> TRUE],
       [name |-> "placeOrders",
        discriminator |-> <<"P", "D", "8", "y", "e", "w", "z", "F", "P", "L", "4", "=">>,
        discriminatorHex |-> <<60, 63, 50, 123, 12, 197, 60, 190>>,
        quicknodeDiscriminator |-> <<"F", "T", "m", "T", "o", "4", "n", "D", "V", "5", "R", "V">>,
        shouldMatch |-> FALSE],
       [name |-> "placeSignedMsgTakerOrder",
        discriminator |-> <<"I", "E", "9", "l", "i", "x", "k", "G", "Y", "g", "8", "=">>,
        discriminatorHex |-> <<32, 79, 101, 139, 25, 6, 98, 15>>,
        quicknodeDiscriminator |-> <<"2", "r", "C", "4", "E", "a", "E", "3", "z", "M", "9", "d">>,
        shouldMatch |-> TRUE],
       [name |-> "placeAndMakeSignedMsgPerpOrder",
        discriminator |-> <<"I", "E", "9", "l", "i", "x", "k", "G", "Y", "g", "8", "=">>,
        discriminatorHex |-> <<32, 79, 101, 139, 25, 6, 98, 15>>,
        quicknodeDiscriminator |-> <<"8", "t", "y", "R", "U", "g", "T", "5", "L", "Q", "4", "P">>,
        shouldMatch |-> TRUE] >>

Range(s) == {s[i] : i \in 1..Len(s)}

\* DRIFT_PROGRAM_ID of src/const.ts, the copy the scripts import.
CONST_DRIFT_PROGRAM_ID == "dRiftyHA39MWEi3m9aunc5MzRF1JYuBsbn6VPcn33UH"

CONST_PERP_DISCRIMINATORS_Stale ==
    << <<"P", "e", "6", "2", "S", "h", "Z", "L", "x", "b", "S", "n">>,
       <<"o", "k", "t", "p", "a", "f", "A", "6", "B", "G", "3", "U">>,
       <<"q", "b", "T", "d", "x", "Z", "c", "V", "T", "F", "r", "K">>,
       <<"2", "r", "C", "4", "E", "a", "E", "3", "z", "M", "9", "d">> >>

\* PERP_DISCRIMINATORS of src/const.ts, in source order.
CONST_PERP_DISCRIMINATORS ==
    << <<"P", "e", "6", "2", "S", "h", "Z", "L", "x", "b", "S", "n">>,
       <<"o", "k", "t", "p", "a", "f", "A", "6", "B", "G", "3", "U">>,
       <<"q", "b", "T", "d", "x", "Z", "c", "V", "T", "F", "r", "K">>,
       <<"2", "r", "C", "4", "E", "a", "E", "3", "z", "M", "9", "d">>,
       <<"8", "t", "y", "R", "U", "g", "T", "5", "L", "Q", "4", "P">> >>

\* The 8-byte tags of the instructions the filter is meant to report, and of
\* those it is meant to ignore.
PerpTags == {t.discriminatorHex : t \in {u \in Range(TEST_TRANSACTIONS) : u.shouldMatch}}
NonPerpTags == {t.discriminatorHex : t \in {u \in Range(TEST_TRANSACTIONS) : ~u.shouldMatch}}

-----------------------------------------------------------------------------
(* Inputs of the codec *)

\* Longest byte sequence enumerated exhaustively.
MaxBytes == 3

\* Byte values enumerated: zero, the carries around 58, and the extremes.
ByteVals == {0, 1, 57, 58, 255}

RECURSIVE SeqsUpTo(_, _)
\* All sequences over S of length at most n.
SeqsUpTo(S, n) ==
    IF n = 0 THEN {<<>>}
    ELSE LET shorter == SeqsUpTo(S, n - 1)
         IN  shorter \cup {Append(s, x) : s \in {t \in shorter : Len(t) = n - 1}, x \in S}

\* What follows the 8-byte tag in an enumerated instruction payload.
Tails == {<<>>, <<0>>, <<224, 0, 0, 0>>, <<255, 255, 255, 255, 255>>}

TaggedPayloads == {tag \o tail : tag \in PerpTags \cup NonPerpTags, tail \in Tails}

TestTransaction(name) == CHOOSE t \in Range(TEST_TRANSACTIONS) : t.name = name

\* Instruction payloads of the filter's inputs.  A placeAndTakePerpOrder
\* payload of 41 bytes whose Base58 text begins "oktpafA6BG3U"; a payload with
\* the same tag and length whose text begins "oktpafA6BG4n"; the bare 8-byte
\* placeSignedMsgTakerOrder tag; a placeSpotOrder payload of 52 bytes whose
\* text begins "FTmTo4nDV5RV"; and the 9 bytes whose text is "Pe62ShZLxbSn".
TakePayloadLow == TestTransaction("placeAndTakePerpOrder").discriminatorHex \o Zeros(33)
TakePayloadHigh ==
    TestTransaction("placeAndTakePerpOrder").discriminatorHex \o [i \in 1..33 |-> 255]
SignedTagOnly == TestTransaction("placeSignedMsgTakerOrder").discriminatorHex
SpotPayload == TestTransaction("placeSpotOrder").discriminatorHex \o Zeros(44)
AliasPayload == <<30, 170, 110, 155, 207, 44, 148, 214, 231>>

SamplePayloads == {TakePayloadLow, TakePayloadHigh, SignedTagOnly, SpotPayload, AliasPayload}

\* The streaming form of each sample payload.
TextOf == [p \in SamplePayloads |-> Str(Base58Encode(p))]

Payloads == SeqsUpTo(ByteVals, MaxBytes) \cup TaggedPayloads \cup SamplePayloads

\* Strings that are not the Base58 text of a payload: the RPC-form (Base64)
\* discriminators of src/const.ts and strings with one foreign character.
ForeignStrings ==
    {t.discriminator : t \in Range(TEST_TRANSACTIONS)}
        \cup {<<"0">>, <<"2", "O", "2">>, <<"I", "l">>, <<"2", "r", " ">>, <<"Q", "U", "J", "D">>}

\* Values that are not strings: nothing, a number, an object, and instruction
\* data that are bytes already (the RPC form).
NonStringInputs ==
    {Undefined, Null, [kind |-> "number", n |-> 7], [kind |-> "object"],
     Buf(<<>>), Buf(SignedTagOnly)}

-----------------------------------------------------------------------------
(* The codec as a state machine: a source encodes, the harness decodes *)

IdleCodec ==
    payload = Undefined /\ encoded = Undefined /\ decoded = NotCalled /\ normalized = NotCalled
IdleFilter == tx = Undefined /\ matched = "notcalled" /\ formatted = NotCalled
IdleMain == stream = Undefined /\ result = NotCalled
IdleDecoder ==
    /\ compiledIx = Undefined
    /\ sdkRaises = FALSE
    /\ sdkCalls = <<>>
    /\ signedOrder = NotCalled
    /\ decodedInstruction = NotCalled
IdleSession == history = <<>>
IdleMessage == txMessage = Undefined /\ driftInstructions = NotCalled
IdleHarness ==
    /\ script = "none"
    /\ worklist = <<>>
    /\ startup = "none"
    /\ phase = "none"
    /\ cursor = 0
    /\ passCount = 0
    /\ failCount = 0
    /\ skippedCount = 0
    /\ log = <<>>
    /\ results = <<>>
    /\ exitStatus = NotCalled
IdleCompare ==
    discriminators1 = <<>> /\ discriminators2 = <<>> /\ comparison = NotCalled
IdleScripts == IdleSession /\ IdleMessage /\ IdleHarness /\ IdleCompare

\* The streaming source has delivered the Base58 text of some bytes B, or a
\* string arrived that no Base58 encoder produced, or a value that is no
\* string at all.
InitCodec ==
    /\ \/ \E B \in Payloads : payload = Buf(B) /\ encoded = Str(Base58Encode(B))
       \/ \E s \in ForeignStrings : payload = Undefined /\ encoded = Str(s)
       \/ \E v \in NonStringInputs : payload = Undefined /\ encoded = v
    /\ decoded = NotCalled
    /\ normalized = NotCalled
    /\ IdleFilter
    /\ IdleMain
    /\ IdleDecoder
    /\ IdleScripts

CallDecodeBase58 ==
    /\ decoded = NotCalled
    /\ decoded' = IF decodeBase58Throws(encoded) THEN Thrown ELSE Buf(decodeBase58(encoded))
    /\ UNCHANGED <<payload, encoded, normalized, filterVars, mainVars, decoderVars, scriptVars>>

CallQuicknodeDataToBuffer ==
    /\ normalized = NotCalled
    /\ normalized' = IF quicknodeDataToBufferThrows(encoded) THEN Thrown
                      ELSE Buf(quicknodeDataToBuffer(encoded))
    /\ UNCHANGED <<payload, encoded, decoded, filterVars, mainVars, decoderVars, scriptVars>>

NextCodec ==
    \/ CallDecodeBase58
    \/ CallQuicknodeDataToBuffer

SpecCodec == InitCodec /\ [][NextCodec]_vars

\* C9: decodeBase58 returns the bytes that were encoded, and the text has one
\* leading "1" per leading zero byte of them (the empty sequence and
\* sequences of zero bytes included).
C9_RoundTrip ==
    (payload.kind = "bytes" /\ decoded # NotCalled) =>
        /\ decoded = payload
        /\ LeadingCount(encoded.chars, "1") = LeadingCount(payload.bytes, 0)

C9_Witness ==
    /\ payload = Buf(<<0, 0, 255>>)
    /\ encoded = Str(<<"1", "1", "5", "Q">>)
    /\ decoded = Buf(<<0, 0, 255>>)

HasForeignChar(chars) == \E i \in 1..Len(chars) : IndexOf(BASE58_ALPHABET, chars[i]) < 0

\* C10: for a string with a character outside the Base58 alphabet the
\* normalizer returns the Base64 decoding of the string, and Base58 output is
\* used only when every character is in the alphabet.
C10_FallbackChain ==
    (encoded.kind = "string" /\ normalized # NotCalled) =>
        normalized = IF HasForeignChar(encoded.chars)
                     THEN Buf(Base64Decode(encoded.chars))
                     ELSE Buf(decodeBase58(encoded))

\* C11: the normalizer is total: whatever value it is given it returns a byte
\* sequence and raises nothing, and for a value that is neither a string nor
\* bytes it returns the empty sequence.
C11_NormalizerTotal ==
    normalized # NotCalled =>
        /\ normalized # Thrown
        /\ normalized.kind = "bytes"
        /\ encoded.kind \notin {"string", "bytes"} => normalized = Buf(<<>>)

\* null handed to the normalizer: the empty buffer comes back.
C11_Witness ==
    /\ encoded = Null
    /\ normalized = Buf(<<>>)


\* C26: for every string holding at least one character outside the
\* 58-character alphabet, whatever valid characters precede or follow it,
\* decodeBase58 returns the empty sequence and raises nothing; a non-empty
\* result comes only from strings made of alphabet characters.
C26_ForeignCharGivesEmpty ==
    (decoded # NotCalled /\ encoded.kind = "string") =>
        /\ decoded.kind = "bytes"
        /\ (\E i \in 1..Len(encoded.chars) : encoded.chars[i] \notin Range(BASE58_ALPHABET))
               => decoded.bytes = <<>>
        /\ decoded.bytes # <<>>
               => \A i \in 1..Len(encoded.chars) : encoded.chars[i] \in Range(BASE58_ALPHABET)

\* "2O2": a letter outside the alphabet between two digits of it.
C26_Witness ==
    /\ encoded = Str(<<"2", "O", "2">>)
    /\ decoded = Buf(<<>>)

-----------------------------------------------------------------------------
(* Inputs of the filter *)

\* Most instructions in an enumerated transaction.
MaxIx == 2

\* A program that is not the target.
OTHER_PROGRAM_ID == "ComputeBudget111111111111111111111111111111"

\* An instruction as the stream delivers it.
Instruction(programId, data) ==
    [kind |-> "object", programId |-> programId, data |-> data,
     accounts |-> Arr(<<"user", "state">>), stackHeight |-> Null]

\* Instruction data: each sample payload in the streaming form (Base58 text)
\* and in the RPC form (raw bytes), or no data at all.
DataPool == {TextOf[p] : p \in SamplePayloads} \cup {Buf(p) : p \in SamplePayloads} \cup {Undefined}

IxPool == {Instruction(pid, d) : pid \in {DRIFT_PROGRAM_ID, OTHER_PROGRAM_ID}, d \in DataPool}
              \cup {Null}

Meta == [kind |-> "object", err |-> Null, fee |-> [kind |-> "number", n |-> 5000],
         logMessages |-> Arr(<<"Program log: Instruction">>)]

\* A transaction with the given signature and the given value as its
\* message's instructions property.
Transaction(sig, instructions) ==
    [kind |-> "object",
     transaction |-> [kind |-> "object",
                      message |-> [kind |-> "object", instructions |-> instructions],
                      signatures |-> Arr(<<sig>>)],
     meta |-> Meta]

\* Transaction records that carry no instruction list: no transaction
\* property, no message, no instructions.
MissingListTxs ==
    { [kind |-> "object", meta |-> Meta],
      [kind |-> "object", transaction |-> [kind |-> "object", signatures |-> Arr(<<"sigM">>)],
                          meta |-> Meta],
      [kind |-> "object",
       transaction |-> [kind |-> "object", message |-> [kind |-> "object"],
                        signatures |-> Arr(<<"sigM">>)],
       meta |-> Meta] }

\* Transaction records whose inspection raises whatever else they hold: a null
\* entry, and an instructions property that is not an array.
BrokenTxs == {Null, Transaction("sigB", Str(<<"a", "b", "c">>))}

\* The Drift instruction of a known transaction as the stream delivers it:
\* its data begin with the entry's quicknodeDiscriminator; what follows is
\* "uc" (the characters that follow in the documented sample) or nothing.
FixtureIx(entry, rest) == Instruction(DRIFT_PROGRAM_ID, Str(entry.quicknodeDiscriminator \o rest))

\* The known transactions of src/const.ts, each reduced to its Drift
\* instruction, and transactions holding the instructions of two of them.
FixtureTxs ==
    {Transaction("sig1", Arr(<<FixtureIx(e, rest)>>)) :
        e \in Range(TEST_TRANSACTIONS), rest \in {<<>>, <<"u", "c">>}}
      \cup {Transaction("sig1", Arr(<<FixtureIx(e, <<"u", "c">>), FixtureIx(f, <<"u", "c">>)>>)) :
                e \in Range(TEST_TRANSACTIONS), f \in Range(TEST_TRANSACTIONS)}

FilterTxPool ==
    {Transaction("sig1", Arr(s)) : s \in SeqsUpTo(IxPool, MaxIx)}
        \cup MissingListTxs \cup BrokenTxs \cup FixtureTxs

\* The block the transaction under inspection belongs to.
BlockHeader == [kind |-> "object", slot |-> 377000001, blockTime |-> 1730000000]

-----------------------------------------------------------------------------
(* The filter on one transaction: main's .filter(matchesFilter).map(format) *)

InitFilter ==
    /\ tx \in FilterTxPool
    /\ matched = "notcalled"
    /\ formatted = NotCalled
    /\ IdleCodec
    /\ IdleMain
    /\ IdleDecoder
    /\ IdleScripts

CallMatchesFilter ==
    /\ matched = "notcalled"
    /\ matched' = matchesFilter(tx)
    /\ UNCHANGED <<tx, formatted, codecVars, mainVars, decoderVars, scriptVars>>

\* main formats the transactions matchesFilter accepted, and only those.
CallFormatTransaction ==
    /\ matched = "true"
    /\ formatted = NotCalled
    /\ formatted' = formatTransaction(tx, BlockHeader)
    /\ UNCHANGED <<tx, matched, codecVars, mainVars, decoderVars, scriptVars>>

NextFilter ==
    \/ CallMatchesFilter
    \/ CallFormatTransaction

SpecFilter == InitFilter /\ [][NextFilter]_vars

\* The instruction list of t when it has one (an array), else the empty list.
ListOf(t) ==
    LET l == OptGet(OptGet(OptGet(t, "transaction"), "message"), "instructions")
    IN  IF l.kind = "array" THEN l.items ELSE <<>>

HasList(t) ==
    OptGet(OptGet(OptGet(t, "transaction"), "message"), "instructions").kind = "array"

\* Every entry of the list is an instruction object on which the
\* per-instruction predicate has a verdict.
Inspectable(t) == HasList(t) /\ \A i \in 1..Len(ListOf(t)) : ixPredicate(ListOf(t)[i]) # "TypeError"

Satisfies(ix) == ixPredicate(ix) = "true"

PayloadOf(data) ==
    IF data.kind = "bytes" THEN data.bytes
    ELSE IF \E p \in SamplePayloads : TextOf[p] = data
         THEN CHOOSE p \in SamplePayloads : TextOf[p] = data
         ELSE decodeBase58(data)

\* An instruction of the target program whose data is Base58 text.
IsDriftText(ix) ==
    ~IsNullish(ix) /\ ix.programId = DRIFT_PROGRAM_ID /\ ix.data.kind = "string"

HasPerpTag(bytes) == Len(bytes) >= 8 /\ SubSeq(bytes, 1, 8) \in PerpTags

\* C2: an instruction of the target program whose payload has at least 8
\* bytes, the first 8 an allow-listed discriminator, is matched whatever
\* follows those 8 bytes and whatever the payload's length.
C2_TagAlwaysMatches ==
    (matched # "notcalled" /\ Inspectable(tx)
        /\ \E i \in 1..Len(ListOf(tx)) :
               IsDriftText(ListOf(tx)[i]) /\ HasPerpTag(PayloadOf(ListOf(tx)[i].data)))
    => matched = "true"

\* C3: an instruction of the target program whose first 8 payload bytes are no
\* allow-listed discriminator is not matched.
C3_OtherTagNeverMatches ==
    (matched # "notcalled" /\ Inspectable(tx)
        /\ \A i \in 1..Len(ListOf(tx)) :
               IsDriftText(ListOf(tx)[i]) /\ ~HasPerpTag(PayloadOf(ListOf(tx)[i].data)))
    => matched # "true"

\* C4: an instruction whose programId is not the target program is never
\* matched and never appears in the formatted record, whatever its data.
C4_ProgramGate ==
    HasList(tx) =>
        /\ (matched # "notcalled"
               /\ \A i \in 1..Len(ListOf(tx)) :
                      IsNullish(ListOf(tx)[i]) \/ ListOf(tx)[i].programId # DRIFT_PROGRAM_ID)
           => matched # "true"
        /\ (formatted # NotCalled /\ formatted # Thrown)
           => \A k \in 1..Len(formatted.instructions.items) :
                  formatted.instructions.items[k].programId = DRIFT_PROGRAM_ID

\* An allow-listed discriminator under a foreign program, next to the same
\* data under the target program: only the latter is reported.
C4_Witness ==
    /\ tx = Transaction("sig1", Arr(<<Instruction(OTHER_PROGRAM_ID, TextOf[TakePayloadLow]),
                                      Instruction(DRIFT_PROGRAM_ID, TextOf[TakePayloadLow])>>))
    /\ formatted # NotCalled
    /\ formatted # Thrown
    /\ Len(formatted.instructions.items) = 1

\* The same transaction with every instruction's data in the other source's
\* encoding: Base58 text for raw bytes, raw bytes for Base58 text.
OtherForm(data) ==
    CASE data.kind = "bytes" -> TextOf[data.bytes]
      [] data.kind = "string" -> Buf(PayloadOf(data))
      [] OTHER -> data

Reencoded(t) ==
    Transaction("sig1", Arr([i \in 1..Len(ListOf(t)) |->
        IF IsNullish(ListOf(t)[i]) THEN ListOf(t)[i]
        ELSE Instruction(ListOf(t)[i].programId, OtherForm(ListOf(t)[i].data))]))

\* C8: the verdict on a transaction does not depend on whether the
\* instruction data arrive as raw bytes or as the Base58 text of those bytes.
C8_EncodingIndependent ==
    (matched # "notcalled" /\ HasList(tx)) => matched = matchesFilter(Reencoded(tx))

\* The first 12 characters of an instruction's data, when the data are a
\* string.
Prefix12(ix) == Substring(ix.data.chars, 0, 12)

IsInstructionOf(ix, name) ==
    /\ IsDriftText(ix)
    /\ Len(ix.data.chars) >= 12
    /\ Prefix12(ix) = TestTransaction(name).quicknodeDiscriminator

\* C18: placeSignedMsgTakerOrder and placeAndMakeSignedMsgPerpOrder have one
\* and the same discriminator tag, the allow-list holds one entry for that
\* tag, and an instruction of either name is matched through that one entry.
C18_SharedTagOneEntry ==
    /\ TestTransaction("placeSignedMsgTakerOrder").discriminatorHex
           = TestTransaction("placeAndMakeSignedMsgPerpOrder").discriminatorHex
    /\ (matched = "true" /\ HasList(tx) /\ Len(ListOf(tx)) = 2
           /\ IsInstructionOf(ListOf(tx)[1], "placeSignedMsgTakerOrder")
           /\ IsInstructionOf(ListOf(tx)[2], "placeAndMakeSignedMsgPerpOrder"))
       => \E i \in 1..Len(PERP_DISCRIMINATORS) :
              /\ PERP_DISCRIMINATORS[i] = Prefix12(ListOf(tx)[1])
              /\ PERP_DISCRIMINATORS[i] = Prefix12(ListOf(tx)[2])

\* A transaction whose only instruction is one of the given known
\* transaction.
IsFixtureTx(t, entry) ==
    /\ HasList(t)
    /\ Len(ListOf(t)) = 1
    /\ IsDriftText(ListOf(t)[1])
    /\ Len(ListOf(t)[1].data.chars) >= 12
    /\ Prefix12(ListOf(t)[1]) = entry.quicknodeDiscriminator

\* C19: for every entry of TEST_TRANSACTIONS, shouldMatch holds exactly when
\* quicknodeDiscriminator is in the filter's allow-list, and a transaction
\* whose Drift instruction's data begin with quicknodeDiscriminator is
\* matched iff shouldMatch.
C19_FixturesAgree ==
    \A n \in 1..Len(TEST_TRANSACTIONS) :
        /\ TEST_TRANSACTIONS[n].shouldMatch
               <=> Includes(PERP_DISCRIMINATORS, TEST_TRANSACTIONS[n].quicknodeDiscriminator)
        /\ (matched # "notcalled" /\ IsFixtureTx(tx, TEST_TRANSACTIONS[n]))
           => (matched = "true" <=> TEST_TRANSACTIONS[n].shouldMatch)

\* The known placeAndMakePerpOrder transaction has been inspected and matched.
C19_Witness ==
    /\ IsFixtureTx(tx, TestTransaction("placeAndMakePerpOrder"))
    /\ TestTransaction("placeAndMakePerpOrder").shouldMatch
    /\ matched = "true"

\* The documented condition on one instruction: the program is the Drift
\* program and the data are a string of at least 12 characters whose first 12
\* are one of the five listed.
DocumentedMatch(ix) ==
    /\ ~IsNullish(ix)
    /\ ix.programId = "dRiftyHA39MWEi3m9aunc5MzRF1JYuBsbn6VPcn33UH"
    /\ ix.data.kind = "string"
    /\ Len(ix.data.chars) >= 12
    /\ SubSeq(ix.data.chars, 1, 12) \in
           { <<"P", "e", "6", "2", "S", "h", "Z", "L", "x", "b", "S", "n">>,
             <<"o", "k", "t", "p", "a", "f", "A", "6", "B", "G", "3", "U">>,
             <<"q", "b", "T", "d", "x", "Z", "c", "V", "T", "F", "r", "K">>,
             <<"2", "r", "C", "4", "E", "a", "E", "3", "z", "M", "9", "d">>,
             <<"8", "t", "y", "R", "U", "g", "T", "5", "L", "Q", "4", "P">> }

ShortText(ix) == ~IsNullish(ix) /\ ix.data.kind = "string" /\ Len(ix.data.chars) < 12

-----------------------------------------------------------------------------
(* Inputs of main *)

\* Most transactions in an enumerated block.
MaxTx == 2

\* Instructions of the blocks handed to main: one the filter matches, one of
\* the same program, tag and length it does not, and a null entry.
MainIxPool ==
    {Instruction(DRIFT_PROGRAM_ID, TextOf[TakePayloadLow]),
     Instruction(DRIFT_PROGRAM_ID, TextOf[TakePayloadHigh]),
     Null}

\* A transaction whose instruction data arrive as raw bytes.
RawDataTx == Transaction("sig1", Arr(<<Instruction(DRIFT_PROGRAM_ID, Buf(TakePayloadLow))>>))

MainTxPool ==
    {Transaction("sig1", Arr(s)) : s \in SeqsUpTo(MainIxPool, MaxIx)}
        \cup MissingListTxs \cup BrokenTxs \cup {RawDataTx}

Signatures == <<"sigA", "sigB", "sigC", "sigD", "sigE", "sigF">>

\* The transaction t as the i-th of its block: its first signature is the
\* i-th signature, when it has a signatures array.
Signed(t, i) ==
    IF IsNullish(OptGet(OptGet(t, "transaction"), "signatures")) THEN t
    ELSE [t EXCEPT !.transaction.signatures = Arr(<<Signatures[i]>>)]

\* stream = { data: [ { slot, blockTime, transactions } ] }
StreamOf(transactions) ==
    [kind |-> "object",
     data |-> Arr(<< [kind |-> "object", slot |-> BlockHeader.slot,
                      blockTime |-> BlockHeader.blockTime,
                      transactions |-> transactions] >>)]

\* Streams without a usable transaction list: no stream, no data, data that is
\* a string or a number, no block, a null block, a block without
\* transactions, transactions that are a string.
OddStreams ==
    { Null,
      [kind |-> "object"],
      [kind |-> "object", data |-> Str(<<"x">>)],
      [kind |-> "object", data |-> [kind |-> "number", n |-> 7]],
      [kind |-> "object", data |-> Arr(<<>>)],
      [kind |-> "object", data |-> Arr(<<Null>>)],
      [kind |-> "object", data |-> Arr(<<BlockHeader>>)],
      StreamOf(Str(<<"t", "x">>)) }

\* A second block of the same delivery: another slot, another time, one
\* transaction the filter matches.
LaterBlock ==
    [kind |-> "object", slot |-> BlockHeader.slot + 1, blockTime |-> BlockHeader.blockTime + 1,
     transactions |->
         Arr(<<Signed(Transaction("sig1",
                   Arr(<<Instruction(DRIFT_PROGRAM_ID, TextOf[TakePayloadLow])>>)), 6)>>)]

\* The stream s followed by the later block.
WithLaterBlock(s) == [s EXCEPT !.data.items = Append(@, LaterBlock)]

\* Deliveries of two blocks: the first holds at most one transaction, or is
\* null, or has no transactions.
TwoBlockStreams ==
    {WithLaterBlock(StreamOf(Arr([i \in 1..Len(ts) |-> Signed(ts[i], i)]))) :
        ts \in {<<>>} \cup {<<t>> : t \in MainTxPool}}
        \cup {WithLaterBlock([kind |-> "object", data |-> Arr(<<Null>>)]),
              WithLaterBlock([kind |-> "object", data |-> Arr(<<BlockHeader>>)])}

Streams ==
    {StreamOf(Arr([i \in 1..Len(ts) |-> Signed(ts[i], i)])) : ts \in SeqsUpTo(MainTxPool, MaxTx)}
        \cup OddStreams \cup TwoBlockStreams

-----------------------------------------------------------------------------
(* One invocation of the deployed predicate *)

InitMain ==
    /\ stream \in Streams
    /\ result = NotCalled
    /\ IdleCodec
    /\ IdleFilter
    /\ IdleDecoder
    /\ IdleScripts

CallMain ==
    /\ result = NotCalled
    /\ result' = main(stream)
    /\ UNCHANGED <<stream, codecVars, filterVars, decoderVars, scriptVars>>

NextMain == CallMain

Spec == InitMain /\ [][NextMain]_vars

\* The transactions of the stream's first block when they are an array.
HasTxArray(s) ==
    OptGet(OptFirst(OptGet(s, "data")), "transactions").kind = "array"

TxsOf(s) == s.data.items[1].transactions.items

\* The stream s with ts as the transactions of its first block.
WithTxs(s, ts) == [s EXCEPT !.data.items[1].transactions.items = ts]

\* C5: main never lets an exception escape: whatever the stream, it returns
\* null or an object holding matchedTransactions and nothing else, and a
\* failure inside it becomes null.
C5_MainNeverThrows ==
    result # NotCalled =>
        /\ \/ result = Null
           \/ result.kind = "object" /\ DOMAIN result = {"kind", "matchedTransactions"}
        /\ mainTry(stream) = Thrown => result = Null

\* A block whose second entry is null: the TypeError raised on it is caught.
C5_Witness ==
    /\ HasTxArray(stream)
    /\ Len(TxsOf(stream)) = 2
    /\ TxsOf(stream)[2] = Null
    /\ mainTry(stream) = Thrown
    /\ result = Null

\* A transaction record, not null, without an instruction list.
IsMissingList(t) ==
    /\ ~IsNullish(t)
    /\ OptGet(OptGet(OptGet(t, "transaction"), "message"), "instructions") = Undefined

HasListPresent(t) == ~IsMissingList(t)

\* C6: a transaction without an instruction list is no match and raises
\* nothing: matchesFilter is false for it, and main returns what it returns
\* for the block without such transactions.
C6_MissingListIsNoMatch ==
    (result # NotCalled /\ HasTxArray(stream)
        /\ \E i \in 1..Len(TxsOf(stream)) : IsMissingList(TxsOf(stream)[i]))
    => /\ \A i \in 1..Len(TxsOf(stream)) :
              IsMissingList(TxsOf(stream)[i]) => matchesFilter(TxsOf(stream)[i]) = "false"
       /\ result = main(WithTxs(stream, SelectSeq(TxsOf(stream), HasListPresent)))

\* A record without a transaction property before a matching transaction:
\* the matching one is reported.
C6_Witness ==
    /\ HasTxArray(stream)
    /\ Len(TxsOf(stream)) = 2
    /\ TxsOf(stream)[1] = [kind |-> "object", meta |-> Meta]
    /\ result # NotCalled
    /\ result # Null
    /\ Len(result.matchedTransactions.items) = 1
    /\ result.matchedTransactions.items[1].signature = "sigB"

\* The inspection of t raises: in matchesFilter, or in formatTransaction once
\* matchesFilter has accepted it.
InspectionFails(t) ==
    \/ matchesFilter(t) = "TypeError"
    \/ matchesFilter(t) = "true" /\ formatTransaction(t, BlockHeader) = Thrown

InspectionWorks(t) == ~InspectionFails(t)

\* C7: a transaction whose inspection fails does not abort the scan of its
\* block: main returns what it returns for the block without the failing
\* transactions.
C7_FailureDoesNotAbortScan ==
    (result # NotCalled /\ HasTxArray(stream))
    => result = main(WithTxs(stream, SelectSeq(TxsOf(stream), InspectionWorks)))


\* matchesFilter accepts t.
Accepted(t) == matchesFilter(t) = "true"

\* First signatures of the transactions ts, in order.
SignaturesOf(ts) == [k \in 1..Len(ts) |-> OptFirst(ts[k].transaction.signatures)]

FirstBlockOnly(s) ==
    IF OptGet(s, "data").kind = "array" /\ Len(s.data.items) > 1
    THEN [s EXCEPT !.data.items = <<@[1]>>]
    ELSE s

\* C27: main inspects only the first element of stream.data: it returns what
\* it returns for the stream cut down to that element, and the slot and
\* blockTime of every record are those of that element.
C27_OnlyFirstBlock ==
    result # NotCalled =>
        /\ result = main(FirstBlockOnly(stream))
        /\ result # Null =>
               \A k \in 1..Len(result.matchedTransactions.items) :
                   /\ result.matchedTransactions.items[k].slot = stream.data.items[1].slot
                   /\ result.matchedTransactions.items[k].blockTime =
                          stream.data.items[1].blockTime

\* Two blocks, each with a matching transaction: one record, of the first.
C27_Witness ==
    /\ OptGet(stream, "data").kind = "array"
    /\ Len(stream.data.items) = 2
    /\ HasTxArray(stream)
    /\ Len(TxsOf(stream)) = 1
    /\ Accepted(TxsOf(stream)[1])
    /\ Accepted(stream.data.items[2].transactions.items[1])
    /\ result # NotCalled
    /\ result # Null
    /\ Len(result.matchedTransactions.items) = 1
    /\ result.matchedTransactions.items[1].signature = "sigA"
    /\ result.matchedTransactions.items[1].slot = BlockHeader.slot

-----------------------------------------------------------------------------
(* src/utils/drift-decoder.ts *)

PLACE_SIGNED_MSG_TAKER_ORDER_DISCRIMINATOR == <<32, 79, 101, 139, 25, 6, 98, 15>>

OFFSETS ==
    [DISCRIMINATOR |-> 0, DISCRIMINATOR_SIZE |-> 8, VEC_LENGTH |-> 0, VEC_LENGTH_SIZE |-> 4,
     SIGNATURE |-> 4, SIGNATURE_SIZE |-> 64, SIGNING_AUTHORITY_SIZE |-> 32,
     MESSAGE_LENGTH_SIZE |-> 2]

MIN_DATA_LENGTH_102 == [AFTER_DISCRIMINATOR |-> 102]

MIN_DATA_LENGTH == [AFTER_DISCRIMINATOR |-> 107]

\* buf.slice(start, end) for 0 <= start: 0-based, end exclusive, both clipped
\* to the buffer.
Slice(bytes, start, end) ==
    SubSeq(bytes, start + 1, IF end < Len(bytes) THEN end ELSE Len(bytes))

readUInt8(bytes, offset) == bytes[offset + 1]
readUInt16BE(bytes, offset) == 256 * bytes[offset + 1] + bytes[offset + 2]

readUInt16LE(bytes, offset) == bytes[offset + 1] + 256 * bytes[offset + 2]
readUInt32LE(bytes, offset) ==
    bytes[offset + 1] + 256 * bytes[offset + 2] + 65536 * bytes[offset + 3]
        + 16777216 * bytes[offset + 4]

\* buf.toString("ascii"): one character per byte, the high bit cleared;
\* characters are kept as their codes.
ToAscii(bytes) == [i \in 1..Len(bytes) |-> bytes[i] % 128]

\* The value of a hexadecimal digit given by its character code, or -1.
HexValue(code) ==
    CASE code \in 48..57 -> code - 48
      [] code \in 65..70 -> code - 55
      [] code \in 97..102 -> code - 87
      [] OTHER -> -1

RECURSIVE HexDecode(_)
\* Buffer.from(string, "hex"): one byte per pair of hexadecimal digits, up to
\* the first pair that is not two such digits; a last single character is
\* dropped.  Never throws.
HexDecode(codes) ==
    IF Len(codes) < 2 \/ HexValue(codes[1]) < 0 \/ HexValue(codes[2]) < 0 THEN <<>>
    ELSE <<16 * HexValue(codes[1]) + HexValue(codes[2])>> \o HexDecode(SubSeq(codes, 3, Len(codes)))

isPlaceSignedMsgTakerOrder_Prefix4(bytes) ==
    /\ Len(bytes) >= OFFSETS.DISCRIMINATOR_SIZE
    /\ Slice(bytes, OFFSETS.DISCRIMINATOR, 4) = Slice(PLACE_SIGNED_MSG_TAKER_ORDER_DISCRIMINATOR, 0, 4)

isPlaceSignedMsgTakerOrder(bytes) ==
    /\ Len(bytes) >= OFFSETS.DISCRIMINATOR_SIZE
    /\ Slice(bytes, OFFSETS.DISCRIMINATOR, OFFSETS.DISCRIMINATOR_SIZE)
           = PLACE_SIGNED_MSG_TAKER_ORDER_DISCRIMINATOR

\* An Error with the given message leaving a function.
ThrownError(message) == [kind |-> "throw", message |-> message]

\* driftClient.decodeSignedMsgOrderParamsMessage(buf, isDelegateSigner), the
\* SDK collaborator: what it returns is a function of its arguments that this
\* repository does not look into; whether it raises is the SDK's decision.
SdkCall(buf, isDelegateSigner) == [buf |-> buf, isDelegateSigner |-> isDelegateSigner]
SdkMessage(buf, isDelegateSigner) ==
    [kind |-> "object", decodedFrom |-> buf, delegate |-> isDelegateSigner]
SdkError == ThrownError("sdk: failed to decode order params message")

\* The outcome of a call: what it returned or raised, and the calls it made to
\* the SDK collaborator.
Outcome(value, calls) == [value |-> value, calls |-> calls]

\* Lines 406-436: decodeSignedMsgOrder on the payload p that follows the
\* discriminator, once p is known to have the minimum length.
decodeAfterLengthCheck(p, raises) ==
    LET vecLength == readUInt32LE(p, OFFSETS.VEC_LENGTH)
        signatureStart == OFFSETS.SIGNATURE
        signatureEnd == signatureStart + OFFSETS.SIGNATURE_SIZE
        signingAuthorityEnd == signatureEnd + OFFSETS.SIGNING_AUTHORITY_SIZE
        messageLengthOffset == signingAuthorityEnd
        messageOffset == messageLengthOffset + OFFSETS.MESSAGE_LENGTH_SIZE
        signature == Slice(p, signatureStart, signatureEnd)
        signingAuthority == Slice(p, signatureEnd, signingAuthorityEnd)
        messageLengthRaw == readUInt16LE(p, messageLengthOffset)
        messageHexString == ToAscii(Slice(p, messageOffset, messageOffset + messageLengthRaw))
        isDelegateSignerIndex == OFFSETS.VEC_LENGTH_SIZE + vecLength
    IN  IF Len(p) < isDelegateSignerIndex + 1
        THEN Outcome(ThrownError("Data too short for isDelegateSigner flag"), <<>>)
        ELSE LET isDelegateSigner == readUInt8(p, isDelegateSignerIndex) = 1
                 signedMsgOrderParamsBuf == Buf(HexDecode(messageHexString))
                 call == SdkCall(signedMsgOrderParamsBuf, isDelegateSigner)
             IN  IF raises THEN Outcome(SdkError, <<call>>)
                 ELSE Outcome([kind |-> "object",
                               signature |-> Buf(signature),
                               signingAuthority |-> Buf(signingAuthority),
                               isDelegateSigner |-> isDelegateSigner,
                               message |-> SdkMessage(signedMsgOrderParamsBuf, isDelegateSigner)],
                              <<call>>)

\* decodeSignedMsgOrder(ixData, driftClient), lines 393-437; raises tells
\* whether the SDK collaborator rejects what it is handed.
decodeSignedMsgOrder(bytes, raises) ==
    IF ~isPlaceSignedMsgTakerOrder(bytes) THEN Outcome(Undefined, <<>>)
    ELSE LET dataAfterDiscriminator == Slice(bytes, OFFSETS.DISCRIMINATOR_SIZE, Len(bytes))
         IN  IF Len(dataAfterDiscriminator) < MIN_DATA_LENGTH.AFTER_DISCRIMINATOR
             THEN Outcome(ThrownError("Data too short: expected at least "
                                          \o ToString(MIN_DATA_LENGTH.AFTER_DISCRIMINATOR)
                                          \o " bytes, got "
                                          \o ToString(Len(dataAfterDiscriminator))), <<>>)
             ELSE decodeAfterLengthCheck(dataAfterDiscriminator, raises)

\* programId.toString() / the key's Base58 text: keys are kept as that text.
DRIFT_PROGRAM_KEY == "dRiftyHA39MWEi3m9aunc5MzRF1JYuBsbn6VPcn33UH"
OTHER_PROGRAM_KEY == "ComputeBudget111111111111111111111111111111"

\* accountKeys[i], 0-based: undefined past the end (kept as the text
\* "undefined", which is no key).
KeyAt(accountKeys, i) ==
    IF i + 1 \in 1..Len(accountKeys) THEN accountKeys[i + 1] ELSE "undefined"

decodeInstruction_NoCatch(cix, accountKeys, index, driftProgramId, raises) ==
    LET programId == KeyAt(accountKeys, cix.programIdIndex)
        ixData == cix.data.bytes
        call == decodeSignedMsgOrder(ixData, raises)
    IN  IF programId = "undefined"
        THEN Outcome([kind |-> "object", index |-> index, programId |-> "unknown",
                      dataLength |-> 0, type |-> "unknown",
                      error |-> "Program ID not found"], <<>>)
        ELSE IF programId # driftProgramId
        THEN Outcome([kind |-> "object", index |-> index, programId |-> programId,
                      dataLength |-> Len(ixData), type |-> "unknown",
                      error |-> "Not a Drift instruction"], <<>>)
        ELSE IF isPlaceSignedMsgTakerOrder(ixData)
        THEN IF call.value.kind = "throw" THEN call
             ELSE Outcome([kind |-> "object", index |-> index, programId |-> programId,
                           dataLength |-> Len(ixData), type |-> "placeSignedMsgTakerOrder",
                           decoded |-> call.value], call.calls)
        ELSE Outcome([kind |-> "object", index |-> index, programId |-> programId,
                      dataLength |-> Len(ixData), type |-> "unknown"], <<>>)

\* decodeInstruction(ix, accountKeys, index, driftProgramId, driftClient),
\* lines 449-508: a record without the optional properties it does not set.
decodeInstruction(cix, accountKeys, index, driftProgramId, raises) ==
    LET programId == KeyAt(accountKeys, cix.programIdIndex)
        ixData == cix.data.bytes
        call == decodeSignedMsgOrder(ixData, raises)
    IN  IF programId = "undefined"
        THEN Outcome([kind |-> "object", index |-> index, programId |-> "unknown",
                      dataLength |-> 0, type |-> "unknown",
                      error |-> "Program ID not found"], <<>>)
        ELSE IF programId # driftProgramId
        THEN Outcome([kind |-> "object", index |-> index, programId |-> programId,
                      dataLength |-> Len(ixData), type |-> "unknown",
                      error |-> "Not a Drift instruction"], <<>>)
        ELSE IF isPlaceSignedMsgTakerOrder(ixData)
        THEN IF call.value.kind = "throw"
             THEN Outcome([kind |-> "object", index |-> index, programId |-> programId,
                           dataLength |-> Len(ixData), type |-> "placeSignedMsgTakerOrder",
                           error |-> call.value.message], call.calls)
             ELSE Outcome([kind |-> "object", index |-> index, programId |-> programId,
                           dataLength |-> Len(ixData), type |-> "placeSignedMsgTakerOrder",
                           decoded |-> call.value], call.calls)
        ELSE Outcome([kind |-> "object", index |-> index, programId |-> programId,
                      dataLength |-> Len(ixData), type |-> "unknown"], <<>>)

-----------------------------------------------------------------------------
(* Inputs of the decoder *)

\* n as 4 and as 2 little-endian bytes.
U32LE(n) == <<n % 256, (n \div 256) % 256, (n \div 65536) % 256, (n \div 16777216) % 256>>
U16LE(n) == <<n % 256, (n \div 256) % 256>>

\* A signature and a signing authority whose bytes all differ from their
\* neighbours', so that a shifted slice is a different value.
SampleSignature == [i \in 1..64 |-> i]
SampleAuthority == [i \in 1..32 |-> 100 + i]

\* Message fields, as ASCII codes: "c8d5", "C8D5af", then "c8zz" (not
\* hexadecimal from the third character on), "c8d5a" (an odd number of
\* characters) and "zzzz".
HexMessages == {<<99, 56, 100, 53>>, <<67, 56, 68, 53, 97, 102>>}
NonHexMessages == {<<99, 56, 122, 122>>, <<99, 56, 100, 53, 97>>, <<122, 122, 122, 122>>}

\* The payload after the discriminator as the program lays it out: the length
\* of the byte vector, then the vector (signature, signing authority, message
\* length, message), then the isDelegateSigner byte and whatever follows.
SignedBody(vecLength, messageLengthRaw, message, rest) ==
    U32LE(vecLength) \o SampleSignature \o SampleAuthority \o U16LE(messageLengthRaw)
        \o message \o rest

\* The vector length the program writes for a message: 64 + 32 + 2 + its length.
VecLengthFor(message) == 98 + Len(message)

\* Well-formed payloads: every message with the flag byte 0, 1 or 2, alone or
\* followed by further bytes.
WellFormedBodies ==
    {SignedBody(VecLengthFor(m), Len(m), m, <<flag>> \o rest) :
        m \in HexMessages \cup NonHexMessages, flag \in {0, 1, 2}, rest \in {<<>>, <<1, 0, 7>>}}

\* Payloads whose length fields disagree with their content: a vector length
\* of 0 or 40 (the flag index falls inside the signature), one far past the
\* end, one of two thousand million, and a message length beyond the payload
\* or below the message's.
SkewedBodies ==
    {SignedBody(v, Len(m), m, <<1, 0>>) :
        v \in {0, 40, 1000, 2000000000}, m \in HexMessages}
      \cup {SignedBody(VecLengthFor(m), l, m, <<1, 0>>) : l \in {2, 300, 65535}, m \in HexMessages}

\* Payloads cut short: nothing after the discriminator, 50 bytes, 106 bytes
\* (one less than the minimum, the flag index 102 inside), and 107 bytes with
\* the flag index just past the end.
ShortBodies ==
    {<<>>,
     SubSeq(SignedBody(102, 4, <<99, 56, 100, 53>>, <<1>>), 1, 50),
     SignedBody(98, 4, <<99, 56, 100, 53>>, <<>>),
     SignedBody(103, 4, <<99, 56, 100, 53>>, <<1>>)}

Bodies == WellFormedBodies \cup SkewedBodies \cup ShortBodies

\* Discriminators handed to the decoder: the designated one, one that shares
\* its first 7 bytes, one that shares its first 4, and another order's.
ForeignDiscriminators ==
    {<<32, 79, 101, 139, 25, 6, 98, 16>>,
     <<32, 79, 101, 139, 0, 0, 0, 0>>,
     <<69, 161, 93, 202, 120, 126, 76, 185>>}

\* Instruction data: the designated discriminator before every body, a
\* foreign one before some, and data shorter than a discriminator.
IxDataPool ==
    {PLACE_SIGNED_MSG_TAKER_ORDER_DISCRIMINATOR \o b : b \in Bodies}
      \cup {d \o b : d \in ForeignDiscriminators,
                     b \in {<<>>, SignedBody(102, 4, <<99, 56, 100, 53>>, <<1>>)}}
      \cup {<<>>, <<32, 79, 101>>, <<32, 79, 101, 139, 25, 6, 98>>}

\* transaction.message.staticAccountKeys
AccountKeys == <<DRIFT_PROGRAM_KEY, OTHER_PROGRAM_KEY>>

\* A compiled instruction: the index of its program among the account keys
\* (2 is past the end) and its data.
CompiledIxPool ==
    {[kind |-> "object", programIdIndex |-> i, data |-> Buf(d)] : i \in 0..2, d \in IxDataPool}

-----------------------------------------------------------------------------
(* The decoder on one compiled instruction *)

InitDecoder ==
    /\ compiledIx \in CompiledIxPool
    /\ sdkRaises \in BOOLEAN
    /\ sdkCalls = <<>>
    /\ signedOrder = NotCalled
    /\ decodedInstruction = NotCalled
    /\ IdleCodec
    /\ IdleFilter
    /\ IdleMain
    /\ IdleScripts

\* A script hands the instruction data to decodeSignedMsgOrder itself.
CallDecodeSignedMsgOrder ==
    /\ signedOrder = NotCalled
    /\ decodedInstruction = NotCalled
    /\ LET call == decodeSignedMsgOrder(compiledIx.data.bytes, sdkRaises)
       IN  /\ signedOrder' = call.value
           /\ sdkCalls' = sdkCalls \o call.calls
    /\ UNCHANGED <<compiledIx, sdkRaises, decodedInstruction, codecVars, filterVars, mainVars, scriptVars>>

\* decodeDriftInstructions hands the instruction, at some position of its
\* transaction, to decodeInstruction.
CallDecodeInstruction ==
    /\ signedOrder = NotCalled
    /\ decodedInstruction = NotCalled
    /\ \E index \in {0, 3} :
          LET call == decodeInstruction(compiledIx, AccountKeys, index, DRIFT_PROGRAM_KEY, sdkRaises)
          IN  /\ decodedInstruction' = call.value
              /\ sdkCalls' = sdkCalls \o call.calls
    /\ UNCHANGED <<compiledIx, sdkRaises, signedOrder, codecVars, filterVars, mainVars, scriptVars>>

NextDecoder ==
    \/ CallDecodeSignedMsgOrder
    \/ CallDecodeInstruction

SpecDecoder == InitDecoder /\ [][NextDecoder]_vars

\* The payload after the 8-byte discriminator.
PayloadAfterTag == Slice(compiledIx.data.bytes, 8, Len(compiledIx.data.bytes))

CarriesSignedTag ==
    /\ Len(compiledIx.data.bytes) >= 8
    /\ SubSeq(compiledIx.data.bytes, 1, 8) = <<32, 79, 101, 139, 25, 6, 98, 15>>

U32At(p, i) == p[i + 1] + 256 * p[i + 2] + 65536 * p[i + 3] + 16777216 * p[i + 4]

U16At(p, i) == p[i + 1] + 256 * p[i + 2]

\* The value of the hexadecimal digit with character code c, or 16 when c is
\* no such digit.
DigitOf(c) ==
    LET digits == <<<<48, 48>>, <<49, 49>>, <<50, 50>>, <<51, 51>>, <<52, 52>>, <<53, 53>>,
                    <<54, 54>>, <<55, 55>>, <<56, 56>>, <<57, 57>>, <<97, 65>>, <<98, 66>>,
                    <<99, 67>>, <<100, 68>>, <<101, 69>>, <<102, 70>> >>
    IN  IF \E d \in 1..16 : c \in Range(digits[d])
        THEN (CHOOSE d \in 1..16 : c \in Range(digits[d])) - 1
        ELSE 16

\* The message field p[102 .. 102 + messageLengthRaw), as far as p holds it.
MessageField(p) == SubSeq(p, 103, IF 102 + U16At(p, 100) < Len(p) THEN 102 + U16At(p, 100) ELSE Len(p))

\* The field lies inside the payload and is an even number of hexadecimal
\* digits.
IsHexField(p) ==
    /\ 102 + U16At(p, 100) <= Len(p)
    /\ Len(MessageField(p)) % 2 = 0
    /\ \A i \in 1..Len(MessageField(p)) : DigitOf(MessageField(p)[i]) < 16

\* The bytes an even-length string of hexadecimal digits stands for.
BytesOfHex(field) ==
    [i \in 1..(Len(field) \div 2) |-> 16 * DigitOf(field[2 * i - 1]) + DigitOf(field[2 * i])]

C14_InvalidHexRejected ==
    (signedOrder # NotCalled /\ CarriesSignedTag
        /\ Len(PayloadAfterTag) >= 107
        /\ 4 + U32At(PayloadAfterTag, 0) + 1 <= Len(PayloadAfterTag)
        /\ 102 + U16At(PayloadAfterTag, 100) <= Len(PayloadAfterTag)
        /\ ~IsHexField(PayloadAfterTag))
    => /\ signedOrder.kind = "throw"
       /\ sdkCalls = <<>>

\* C15: for data whose first 8 bytes are not the designated discriminator, or
\* that has fewer than 8 bytes, decodeSignedMsgOrder returns undefined, raises
\* nothing and makes no call to the SDK collaborator.
C15_OnlyDesignatedTag ==
    (signedOrder # NotCalled /\ ~CarriesSignedTag) =>
        /\ signedOrder = Undefined
        /\ sdkCalls = <<>>

\* A discriminator that differs from the designated one in its last byte
\* only, before a complete payload.
C15_Witness ==
    /\ Len(compiledIx.data.bytes) = 115
    /\ SubSeq(compiledIx.data.bytes, 1, 8) = <<32, 79, 101, 139, 25, 6, 98, 16>>
    /\ signedOrder = Undefined
    /\ sdkCalls = <<>>

\* The decoding of the instruction's data raises: the payload is too short,
\* or the SDK collaborator rejects what it is handed.
DecodingRaises ==
    \/ Len(PayloadAfterTag) < 107
    \/ 4 + U32At(PayloadAfterTag, 0) + 1 > Len(PayloadAfterTag)
    \/ sdkRaises

\* C16: for an instruction of the Drift program carrying the designated
\* discriminator whose decoding raises, decodeInstruction returns a record of
\* type placeSignedMsgTakerOrder with the error's message and no decoded
\* record; every record of that type has exactly one of decoded and error,
\* and a record of type unknown has no decoded record.
C16_FailureDowngraded ==
    decodedInstruction # NotCalled =>
        /\ decodedInstruction.kind = "object"
        /\ (compiledIx.programIdIndex = 0 /\ CarriesSignedTag /\ DecodingRaises)
           => /\ decodedInstruction.type = "placeSignedMsgTakerOrder"
              /\ "error" \in DOMAIN decodedInstruction
              /\ "decoded" \notin DOMAIN decodedInstruction
              /\ decodedInstruction.error \in
                     {"Data too short: expected at least 107 bytes, got "
                          \o ToString(Len(PayloadAfterTag)),
                      "Data too short for isDelegateSigner flag",
                      SdkError.message}
        /\ decodedInstruction.type = "placeSignedMsgTakerOrder"
           => ("decoded" \in DOMAIN decodedInstruction) # ("error" \in DOMAIN decodedInstruction)
        /\ decodedInstruction.type = "unknown" => "decoded" \notin DOMAIN decodedInstruction

\* A complete payload the SDK collaborator rejects: the record carries the
\* SDK's message, after one call to the collaborator.
C16_Witness ==
    /\ decodedInstruction # NotCalled
    /\ sdkRaises
    /\ Len(sdkCalls) = 1
    /\ decodedInstruction.type = "placeSignedMsgTakerOrder"
    /\ decodedInstruction.error = SdkError.message
    /\ "decoded" \notin DOMAIN decodedInstruction


\* C28: whenever decodeSignedMsgOrder succeeds the variable-length fields lie
\* inside the payload and clear of the fixed fields: with p the payload after
\* the discriminator, 102 + messageLengthRaw <= 4 + vecLength < Len(p), so
\* the message handed to the SDK is not cut at the end of the payload and the
\* isDelegateSigner byte is read at or after the end of the message.
C28_FieldsInsidePayload ==
    signedOrder.kind = "object" =>
        /\ 102 + U16At(PayloadAfterTag, 100) <= 4 + U32At(PayloadAfterTag, 0)
        /\ 4 + U32At(PayloadAfterTag, 0) < Len(PayloadAfterTag)

-----------------------------------------------------------------------------
(* A session: the deployed filter invoked on one delivery after another *)

\* Most invocations of main in an enumerated session.
MaxCalls == 2

\* A transaction the filter matches, one it does not, and a null entry.
SessionTxPool ==
    {Transaction("sig1", Arr(<<Instruction(DRIFT_PROGRAM_ID, TextOf[TakePayloadLow])>>)),
     Transaction("sig1", Arr(<<Instruction(DRIFT_PROGRAM_ID, TextOf[TakePayloadHigh])>>)),
     Null}

SessionStreams ==
    {StreamOf(Arr([i \in 1..Len(ts) |-> Signed(ts[i], i)])) : ts \in SeqsUpTo(SessionTxPool, 2)}
        \cup {Null, WithLaterBlock(StreamOf(Arr(<<>>)))}

\* An invocation that empties the transaction list it scanned.
mainEffect_ConsumesInput(s) ==
    [stream |-> IF HasTxArray(s) THEN WithTxs(s, <<>>) ELSE s, result |-> main(s)]

\* What an invocation of main leaves behind: the stream as it is after the
\* call, and the value returned. filter.js assigns to no property of its
\* arguments, calls only filter, map, some, includes and substring on them,
\* and writes no module-level binding.
mainEffect(s) == [stream |-> s, result |-> main(s)]

InitSession ==
    /\ stream \in SessionStreams
    /\ result = NotCalled
    /\ history = <<>>
    /\ IdleCodec
    /\ IdleFilter
    /\ IdleDecoder
    /\ IdleMessage
    /\ IdleHarness
    /\ IdleCompare

\* The platform invokes main on the delivery it holds.
InvokeMain ==
    /\ result = NotCalled
    /\ Len(history) < MaxCalls
    /\ LET effect == mainEffect(stream)
       IN  /\ stream' = effect.stream
           /\ result' = effect.result
           /\ history' = Append(history, [input |-> stream, after |-> effect.stream,
                                          result |-> effect.result])
    /\ UNCHANGED <<codecVars, filterVars, decoderVars, messageVars, harnessVars, compareVars>>

\* The next delivery arrives.
Deliver ==
    /\ result # NotCalled
    /\ Len(history) < MaxCalls
    /\ stream' \in SessionStreams
    /\ result' = NotCalled
    /\ UNCHANGED <<history, codecVars, filterVars, decoderVars, messageVars, harnessVars,
                   compareVars>>

NextSession ==
    \/ InvokeMain
    \/ Deliver

SpecSession == InitSession /\ [][NextSession]_vars

\* The transaction and instruction records of the first block of s.
InputObjects(s) ==
    IF ~HasTxArray(s) THEN {}
    ELSE Range(TxsOf(s)) \cup
         UNION {Range(ListOf(TxsOf(s)[i])) : i \in {k \in 1..Len(TxsOf(s)) : HasList(TxsOf(s)[k])}}

\* The records of a returned value and the instruction records they hold.
OutputObjects(r) ==
    IF r = Null THEN {}
    ELSE Range(r.matchedTransactions.items) \cup
         UNION {Range(r.matchedTransactions.items[k].instructions.items) :
                    k \in 1..Len(r.matchedTransactions.items)}

-----------------------------------------------------------------------------
(* src/utils/drift-decoder.ts: decodeDriftInstructions on one message *)

RECURSIVE decodeDriftLoop(_, _, _, _, _, _)
\* The iterations index, index+1, ... of the loop of lines 532-539 from the
\* results and SDK calls gathered so far.
decodeDriftLoop(entries, accountKeys, index, driftProgramId, raises, acc) ==
    IF index >= Len(entries) THEN acc
    ELSE LET call == decodeInstruction(entries[index + 1], accountKeys, index,
                                       driftProgramId, raises)
             keep == \/ call.value.type # "unknown"
                     \/ "error" \notin DOMAIN call.value
                     \/ call.value.error # "Not a Drift instruction"
         IN  decodeDriftLoop(entries, accountKeys, index + 1, driftProgramId, raises,
                 Outcome(IF keep THEN Append(acc.value, call.value) ELSE acc.value,
                         acc.calls \o call.calls))

\* decodeDriftInstructions(tx, driftProgramId, driftClient) on tx's message.
decodeDriftInstructions(msg, driftProgramId, raises) ==
    IF "compiledInstructions" \notin DOMAIN msg THEN Outcome(<<>>, <<>>)
    ELSE decodeDriftLoop(msg.compiledInstructions, msg.staticAccountKeys, 0,
                         driftProgramId, raises, Outcome(<<>>, <<>>))

\* Compiled instructions of a message: a well-formed signed order of the
\* Drift program, one cut short, a Drift instruction of another kind, the
\* same bytes for another program, and one whose program index is past the
\* end of the account keys.
MessageIxPool ==
    LET signed == PLACE_SIGNED_MSG_TAKER_ORDER_DISCRIMINATOR
                      \o SignedBody(102, 4, <<99, 56, 100, 53>>, <<1>>)
    IN  {[kind |-> "object", programIdIndex |-> 0, data |-> Buf(signed)],
         [kind |-> "object", programIdIndex |-> 0,
          data |-> Buf(SubSeq(signed, 1, 58))],
         [kind |-> "object", programIdIndex |-> 0,
          data |-> Buf(<<69, 161, 93, 202, 120, 126, 76, 185>>)],
         [kind |-> "object", programIdIndex |-> 1, data |-> Buf(signed)],
         [kind |-> "object", programIdIndex |-> 2, data |-> Buf(signed)]}

\* A versioned message: its static account keys and compiled instructions.
VersionedMessage(entries) ==
    [kind |-> "object", staticAccountKeys |-> AccountKeys, compiledInstructions |-> entries]

\* A legacy message: accountKeys and instructions, no compiledInstructions.
LegacyMessage ==
    [kind |-> "object", accountKeys |-> AccountKeys,
     instructions |-> <<[kind |-> "object", programIdIndex |-> 0,
                         data |-> Str(<<"2", "r", "C">>)]>>]

Messages == {VersionedMessage(e) : e \in SeqsUpTo(MessageIxPool, MaxIx + 1)} \cup {LegacyMessage}

InitMessage ==
    /\ txMessage \in Messages
    /\ driftInstructions = NotCalled
    /\ sdkRaises \in BOOLEAN
    /\ sdkCalls = <<>>
    /\ compiledIx = Undefined
    /\ signedOrder = NotCalled
    /\ decodedInstruction = NotCalled
    /\ IdleCodec
    /\ IdleFilter
    /\ IdleMain
    /\ IdleSession
    /\ IdleHarness
    /\ IdleCompare

CallDecodeDriftInstructions ==
    /\ driftInstructions = NotCalled
    /\ LET call == decodeDriftInstructions(txMessage, DRIFT_PROGRAM_KEY, sdkRaises)
       IN  /\ driftInstructions' = Arr(call.value)
           /\ sdkCalls' = sdkCalls \o call.calls
    /\ UNCHANGED <<txMessage, sdkRaises, compiledIx, signedOrder, decodedInstruction,
                   codecVars, filterVars, mainVars, history, harnessVars, compareVars>>

NextMessage == CallDecodeDriftInstructions

SpecMessage == InitMessage /\ [][NextMessage]_vars

\* C25: decodeDriftInstructions returns entries of Drift instructions only:
\* the program id of the instruction at each entry's index is the Drift
\* program id (no entry for another program's instruction or for one whose
\* program id cannot be resolved), the indexes are positions in the message
\* and ascend, and a message without compiledInstructions gives the empty
\* list.
C25_OnlyDriftInstructions ==
    driftInstructions # NotCalled =>
        IF "compiledInstructions" \notin DOMAIN txMessage
        THEN driftInstructions.items = <<>>
        ELSE LET entries == txMessage.compiledInstructions
                 got == driftInstructions.items
             IN  /\ \A k \in 1..Len(got) :
                        /\ got[k].index \in 0..(Len(entries) - 1)
                        /\ KeyAt(txMessage.staticAccountKeys,
                                 entries[got[k].index + 1].programIdIndex) = DRIFT_PROGRAM_KEY
                 /\ \A k, l \in 1..Len(got) : k < l => got[k].index < got[l].index

-----------------------------------------------------------------------------
(* scripts/compare-discriminators.ts: compareInstructions *)

\* compareInstructionPair(disc1, disc2, label1, label2): differencesFound.
compareInstructionPair(disc1, disc2) ==
    LET programMatch == disc1.programId = disc2.programId
        discriminatorMatch == disc1.discriminatorBase64 = disc2.discriminatorBase64
    IN  ~programMatch \/ ~discriminatorMatch

\* list[i], 0-based: undefined past the end.
ElementAt(list, i) == IF i + 1 \in 1..Len(list) THEN list[i + 1] ELSE Undefined

\* An iteration that reports an instruction missing from the second endpoint
\* without counting it.
compareStep_MissingUncounted(acc, disc1, disc2) ==
    IF ~Truthy(disc1) /\ Truthy(disc2)
    THEN [acc EXCEPT !.differencesFound = TRUE, !.missingCount = @ + 1]
    ELSE IF Truthy(disc1) /\ ~Truthy(disc2)
    THEN [acc EXCEPT !.differencesFound = TRUE]
    ELSE IF ~Truthy(disc1) \/ ~Truthy(disc2) THEN acc
    ELSE IF compareInstructionPair(disc1, disc2)
    THEN [acc EXCEPT !.differencesFound = TRUE, !.mismatchCount = @ + 1]
    ELSE [acc EXCEPT !.matchCount = @ + 1]

\* One iteration of the loop of lines 241-278 on the counters acc.
compareStep(acc, disc1, disc2) ==
    IF ~Truthy(disc1) /\ Truthy(disc2)
    THEN [acc EXCEPT !.differencesFound = TRUE, !.missingCount = @ + 1]
    ELSE IF Truthy(disc1) /\ ~Truthy(disc2)
    THEN [acc EXCEPT !.differencesFound = TRUE, !.missingCount = @ + 1]
    ELSE IF ~Truthy(disc1) \/ ~Truthy(disc2) THEN acc
    ELSE IF compareInstructionPair(disc1, disc2)
    THEN [acc EXCEPT !.differencesFound = TRUE, !.mismatchCount = @ + 1]
    ELSE [acc EXCEPT !.matchCount = @ + 1]

RECURSIVE compareLoop(_, _, _, _, _)
\* The iterations i, i+1, ... of that loop.
compareLoop(list1, list2, i, maxLength, acc) ==
    IF i >= maxLength THEN acc
    ELSE compareLoop(list1, list2, i + 1, maxLength,
                     compareStep(acc, ElementAt(list1, i), ElementAt(list2, i)))

\* compareInstructions(discriminators1, discriminators2, label1, label2)
compareInstructions(list1, list2) ==
    LET maxLength == IF Len(list1) > Len(list2) THEN Len(list1) ELSE Len(list2)
        zero == [kind |-> "object", differencesFound |-> FALSE, matchCount |-> 0,
                 mismatchCount |-> 0, missingCount |-> 0]
    IN  IF maxLength = 0 THEN zero ELSE compareLoop(list1, list2, 0, maxLength, zero)

\* Most instructions in an enumerated list of discriminators.
MaxDisc == 2

\* What extractDiscriminators pushes for an instruction: two orders of the
\* Drift program and an instruction of another program with the first
\* order's discriminator.
DiscriminatorPool ==
    {[kind |-> "object", programId |-> DRIFT_PROGRAM_KEY,
      discriminatorBase64 |-> "IE9lixkGYg8=", dataLength |-> 245],
     [kind |-> "object", programId |-> DRIFT_PROGRAM_KEY,
      discriminatorBase64 |-> "RaFdynh+TLk=", dataLength |-> 41],
     [kind |-> "object", programId |-> OTHER_PROGRAM_KEY,
      discriminatorBase64 |-> "IE9lixkGYg8=", dataLength |-> 245]}

InitCompare ==
    /\ discriminators1 \in SeqsUpTo(DiscriminatorPool, MaxDisc)
    /\ discriminators2 \in SeqsUpTo(DiscriminatorPool, MaxDisc)
    /\ comparison = NotCalled
    /\ IdleCodec
    /\ IdleFilter
    /\ IdleMain
    /\ IdleDecoder
    /\ IdleSession
    /\ IdleMessage
    /\ IdleHarness

CallCompareInstructions ==
    /\ comparison = NotCalled
    /\ comparison' = compareInstructions(discriminators1, discriminators2)
    /\ UNCHANGED <<discriminators1, discriminators2, codecVars, filterVars, mainVars,
                   decoderVars, history, messageVars, harnessVars>>

NextCompare == CallCompareInstructions

SpecCompare == InitCompare /\ [][NextCompare]_vars

\* C30: compareInstructions accounts for every compared position once:
\* matchCount + mismatchCount + missingCount is the length of the longer
\* list, and differencesFound is true iff mismatchCount + missingCount > 0.
C30_EveryPositionCounted ==
    comparison # NotCalled =>
        /\ comparison.matchCount + comparison.mismatchCount + comparison.missingCount
               = (IF Len(discriminators1) > Len(discriminators2)
                  THEN Len(discriminators1) ELSE Len(discriminators2))
        /\ comparison.differencesFound
               <=> comparison.mismatchCount + comparison.missingCount > 0

\* Two instructions against one: the first pair differs in program only, the
\* second is missing from the second endpoint.
C30_Witness ==
    /\ Len(discriminators1) = 2
    /\ Len(discriminators2) = 1
    /\ discriminators1[1].programId # discriminators2[1].programId
    /\ discriminators1[1].discriminatorBase64 = discriminators2[1].discriminatorBase64
    /\ comparison # NotCalled
    /\ comparison.matchCount = 0
    /\ comparison.mismatchCount = 1
    /\ comparison.missingCount = 1
    /\ comparison.differencesFound

-----------------------------------------------------------------------------
(* The batch scans of the harness: scripts/test-filter-with-known-txs.ts,   *)
(* its variant with skipped entries, and scripts/test-filter.ts.            *)
(* What the RPC endpoint, the test-filter API and the order display answer  *)
(* for an item is fixed with the item when the run starts.                  *)

\* getSlotFromSignature(signature, rpcUrl) for the answer txResponse of
\* connection.getTransaction, returning whatever slot the answer carries.
getSlotFromSignature_NoCheck(signature, txResponse) == OptGet(txResponse, "slot")

\* getSlotFromSignature(signature, rpcUrl) for the answer txResponse of
\* connection.getTransaction: the slot, or the error raised.
getSlotFromSignature(signature, txResponse) ==
    IF ~Truthy(OptGet(txResponse, "slot"))
    THEN [kind |-> "throw", message |-> "Could not get slot for transaction: ",
          signature |-> signature]
    ELSE txResponse.slot

\* isTestTransactionReady(tx): !tx.signature.startsWith("TODO_")
isTestTransactionReady(txInfo) ==
    Substring(txInfo.signature.chars, 0, 5) # <<"T", "O", "D", "O", "_">>

\* result.filtered_data || result.result
FilteredDataOf(response) ==
    IF Truthy(OptGet(response, "filtered_data")) THEN response.filtered_data
    ELSE OptGet(response, "result")

\* list.some(tx => tx.signature === signature)
SomeSignature(list, signature) ==
    \E i \in 1..Len(list.items) : list.items[i].signature = signature

\* checkIfMatched(filteredData, signature), test-filter-with-known-txs.ts
checkIfMatched(filteredData, signature) ==
    IF ~Truthy(filteredData) \/ filteredData.kind \notin {"object", "array"} THEN FALSE
    ELSE IF filteredData.kind = "object" /\ "matchedTransactions" \in DOMAIN filteredData
    THEN LET matchedTransactions == IF Truthy(filteredData.matchedTransactions)
                                    THEN filteredData.matchedTransactions ELSE Arr(<<>>)
         IN  SomeSignature(matchedTransactions, signature)
    ELSE IF filteredData.kind = "array"
    THEN \E b \in 1..Len(filteredData.items) :
             /\ ~IsNullish(OptGet(filteredData.items[b], "transactions"))
             /\ SomeSignature(filteredData.items[b].transactions, signature)
    ELSE FALSE

\* getMatchedTransaction(filteredData, signature)
getMatchedTransaction(filteredData, signature) ==
    IF ~Truthy(filteredData) \/ filteredData.kind \notin {"object", "array"} THEN Null
    ELSE IF filteredData.kind = "object" /\ "matchedTransactions" \in DOMAIN filteredData
    THEN LET matchedTransactions == IF Truthy(filteredData.matchedTransactions)
                                    THEN filteredData.matchedTransactions ELSE Arr(<<>>)
         IN  IF SomeSignature(matchedTransactions, signature)
             THEN matchedTransactions.items[
                      CHOOSE i \in 1..Len(matchedTransactions.items) :
                          /\ matchedTransactions.items[i].signature = signature
                          /\ \A j \in 1..(i - 1) :
                                 matchedTransactions.items[j].signature # signature]
             ELSE Null
    ELSE Null

\* The match test of the variant: only an array of blocks is searched.
checkIfMatchedInBlocks(filteredData, signature) ==
    /\ Truthy(filteredData)
    /\ filteredData.kind = "array"
    /\ \E b \in 1..Len(filteredData.items) :
           SomeSignature(filteredData.items[b].transactions, signature)

\* A counter incremented for the item at position k, with the error caught
\* when there is one.
Increment(k, counter, error) == [item |-> k, counter |-> counter, error |-> error]

\* The counters c after one more increment.
Counted(c, k, counter, error) ==
    [c EXCEPT ![counter] = @ + 1, !.log = Append(@, Increment(k, counter, error))]

\* What the order display raises when it raises (formatDecodedOrder on an
\* amount BN.toNumber rejects, for one).
DisplayError == ThrownError("Number can only safely store up to 53 bits")

\* slot.toString() on a slot that is undefined or null
SlotTypeError == ThrownError("undefined is not an object (evaluating 'slot.toString')")

\* One iteration of the loop of test-filter-with-known-txs.ts, lines 142-195,
\* on the item txInfo at position k and the counters c.
scanKnownTransaction(txInfo, k, c) ==
    LET slot == getSlotFromSignature(txInfo.signature, txInfo.rpc)
        filteredData == FilteredDataOf(txInfo.api)
        isMatched == checkIfMatched(filteredData, txInfo.signature)
        matchedTx == getMatchedTransaction(filteredData, txInfo.signature)
        passed == isMatched = txInfo.shouldMatch
    IN  IF slot.kind = "throw" THEN Counted(c, k, "failCount", slot)
        ELSE IF IsNullish(slot) THEN Counted(c, k, "failCount", SlotTypeError)
        ELSE IF txInfo.api.kind = "throw" THEN Counted(c, k, "failCount", txInfo.api)
        ELSE IF passed
        THEN IF isMatched /\ Truthy(OptGet(matchedTx, "instructions"))
                  /\ txInfo.display = "raises"
             THEN Counted(Counted(c, k, "passCount", Undefined), k, "failCount", DisplayError)
             ELSE Counted(c, k, "passCount", Undefined)
        ELSE Counted(c, k, "failCount", Undefined)

\* One iteration of the loop of the variant (unnamed/part_001, lines 41-97).
scanReadyTransaction(txInfo, k, c) ==
    LET slot == getSlotFromSignature(txInfo.signature, txInfo.rpc)
        filteredData == FilteredDataOf(txInfo.api)
        isMatched == checkIfMatchedInBlocks(filteredData, txInfo.signature)
        passed == isMatched = txInfo.shouldMatch
    IN  IF ~isTestTransactionReady(txInfo) THEN Counted(c, k, "skippedCount", Undefined)
        ELSE IF slot.kind = "throw" THEN Counted(c, k, "failCount", slot)
        ELSE IF IsNullish(slot) THEN Counted(c, k, "failCount", SlotTypeError)
        ELSE IF txInfo.api.kind = "throw" THEN Counted(c, k, "failCount", txInfo.api)
        ELSE IF passed THEN Counted(c, k, "passCount", Undefined)
        ELSE Counted(c, k, "failCount", Undefined)

\* analyzeFilterResult(result, slot) raises: the display of a non-empty
\* custom-format result raised.
analyzeFilterResultThrows(block) ==
    LET filteredData == FilteredDataOf(block.api)
    IN  /\ Truthy(filteredData)
        /\ filteredData.kind = "object"
        /\ "matchedTransactions" \in DOMAIN filteredData
        /\ Truthy(filteredData.matchedTransactions)
        /\ Len(filteredData.matchedTransactions.items) > 0
        /\ block.display = "raises"

\* testSingleBlock(client, network, block, filterFunction), test-filter.ts
testSingleBlock(block) ==
    IF block.api.kind = "throw"
    THEN [block |-> block.block, result |-> Null, error |-> block.api.message]
    ELSE IF analyzeFilterResultThrows(block)
    THEN [block |-> block.block, result |-> Null, error |-> DisplayError.message]
    ELSE [block |-> block.block, result |-> block.api]

\* The code the handlers chained on testFilterWithKnownTransactions() give to
\* process.exit: .then exits with 0, .catch with 1.
knownTxsExitCode(outcome) == IF outcome = "settled" THEN [kind |-> "exit", code |-> 0]
                             ELSE [kind |-> "exit", code |-> 1]

\* The handlers chained on testFilter(), with an exit code that tells
\* success from failure.
testFilterExitCode_ZeroOnSuccess(outcome) == knownTxsExitCode(outcome)

\* The code the handlers chained on testFilter() give to process.exit:
\* .catch logs, .finally exits with 1.
testFilterExitCode(outcome) == [kind |-> "exit", code |-> 1]

\* Most items in an enumerated scan.
MaxItems == 2

KnownScripts == {"test-filter-with-known-txs", "test-filter-with-known-txs (ready entries)"}

ReadySignature == Str(<<"5", "x", "Q">>)
TodoSignature == Str(<<"T", "O", "D", "O", "_", "1">>)

\* Answers of connection.getTransaction: a transaction with its slot, no
\* transaction, a transaction without slot, and one of slot 0.
RpcFound == [kind |-> "object", slot |-> [kind |-> "number", n |-> BlockHeader.slot]]
RpcNoSlot == [kind |-> "object"]
RpcSlotZero == [kind |-> "object", slot |-> [kind |-> "number", n |-> 0]]

\* Answers of client.testFilter: the filter's own format holding the
\* transaction, an array of blocks holding it, no data, and an error.
ApiResponse(filteredData) == [kind |-> "object", filtered_data |-> filteredData]
CustomData(signature) ==
    [kind |-> "object",
     matchedTransactions |->
         Arr(<<[kind |-> "object", signature |-> signature,
                instructions |-> Arr(<<CopyIx(Instruction(DRIFT_PROGRAM_ID,
                                                           TextOf[TakePayloadLow]))>>)]>>)]
BlocksData(signature) ==
    Arr(<<[kind |-> "object",
           transactions |-> Arr(<<[kind |-> "object", signature |-> signature]>>)]>>)
ApiError == ThrownError("QuickNode API error: 500")

\* An entry of TEST_TRANSACTIONS together with what the collaborators answer
\* for it.
KnownItem(signature, shouldMatch, rpc, api, display) ==
    [signature |-> signature, shouldMatch |-> shouldMatch, rpc |-> rpc, api |-> api,
     display |-> display]

KnownTxPool ==
    {KnownItem(TodoSignature, TRUE, Null, ApiResponse(Null), "shown"),
     KnownItem(ReadySignature, TRUE, Null, ApiResponse(Null), "shown"),
     KnownItem(ReadySignature, TRUE, RpcNoSlot, ApiResponse(CustomData(ReadySignature)), "shown"),
     KnownItem(ReadySignature, TRUE, RpcSlotZero, ApiResponse(CustomData(ReadySignature)), "shown"),
     KnownItem(ReadySignature, TRUE, RpcFound, ApiError, "shown"),
     KnownItem(ReadySignature, TRUE, RpcFound, ApiResponse(CustomData(ReadySignature)), "shown"),
     KnownItem(ReadySignature, TRUE, RpcFound, ApiResponse(CustomData(ReadySignature)), "raises"),
     KnownItem(ReadySignature, TRUE, RpcFound, ApiResponse(Null), "shown"),
     KnownItem(ReadySignature, FALSE, RpcFound, ApiResponse(Null), "shown"),
     KnownItem(ReadySignature, TRUE, RpcFound, ApiResponse(BlocksData(ReadySignature)), "shown")}

\* What the collaborators answer for a requested block.
BlockAnswers ==
    {[api |-> ApiResponse(CustomData(ReadySignature)), display |-> "shown"],
     [api |-> ApiResponse(CustomData(ReadySignature)), display |-> "raises"],
     [api |-> ApiResponse(Null), display |-> "shown"],
     [api |-> ApiError, display |-> "shown"]}

\* The slots requested, as the decimal strings of blocksToTest.
BlockIds == <<"377000001", "377000002", "377000003", "377000004">>

BlockLists ==
    {[i \in 1..Len(answers) |->
          [block |-> BlockIds[i], api |-> answers[i].api, display |-> answers[i].display]] :
        answers \in SeqsUpTo(BlockAnswers, MaxItems)}

InitHarness ==
    /\ script \in KnownScripts \cup {"test-filter"}
    /\ worklist \in (IF script = "test-filter" THEN BlockLists
                     ELSE SeqsUpTo(KnownTxPool, MaxItems))
    /\ startup \in (IF script = "test-filter" THEN {"ok", "raises", "exits"}
                    ELSE {"ok", "raises"})
    /\ phase = "start"
    /\ cursor = 0
    /\ passCount = 0
    /\ failCount = 0
    /\ skippedCount = 0
    /\ log = <<>>
    /\ results = <<>>
    /\ exitStatus = NotCalled
    /\ IdleCodec
    /\ IdleFilter
    /\ IdleMain
    /\ IdleDecoder
    /\ IdleSession
    /\ IdleMessage
    /\ IdleCompare

\* The statements before the loop: they complete, or one of them raises
\* (the API key is missing, driftClient.subscribe or the slot lookup of --tx
\* fails), or determineBlocksToTest calls process.exit(1) itself.
StartScript ==
    /\ phase = "start"
    /\ phase' = (IF startup = "ok" THEN "scan"
                 ELSE IF startup = "raises" THEN "caught" ELSE "exited")
    /\ cursor' = (IF startup = "ok" THEN 1 ELSE cursor)
    /\ exitStatus' = (IF startup = "exits" THEN [kind |-> "exit", code |-> 1] ELSE exitStatus)
    /\ UNCHANGED <<script, worklist, startup, passCount, failCount, skippedCount, log, results,
                   codecVars, filterVars, mainVars, decoderVars, history, messageVars,
                   compareVars>>

\* One iteration of the loop over TEST_TRANSACTIONS.
ScanNextTransaction ==
    /\ script \in KnownScripts
    /\ phase = "scan"
    /\ cursor <= Len(worklist)
    /\ LET before == [passCount |-> passCount, failCount |-> failCount,
                      skippedCount |-> skippedCount, log |-> log]
           after == IF script = "test-filter-with-known-txs"
                    THEN scanKnownTransaction(worklist[cursor], cursor, before)
                    ELSE scanReadyTransaction(worklist[cursor], cursor, before)
       IN  /\ passCount' = after.passCount
           /\ failCount' = after.failCount
           /\ skippedCount' = after.skippedCount
           /\ log' = after.log
    /\ cursor' = cursor + 1
    /\ UNCHANGED <<script, worklist, startup, phase, results, exitStatus,
                   codecVars, filterVars, mainVars, decoderVars, history, messageVars,
                   compareVars>>

\* One iteration of the loop over blocksToTest.
TestNextBlock ==
    /\ script = "test-filter"
    /\ phase = "scan"
    /\ cursor <= Len(worklist)
    /\ results' = Append(results, testSingleBlock(worklist[cursor]))
    /\ cursor' = cursor + 1
    /\ UNCHANGED <<script, worklist, startup, phase, passCount, failCount, skippedCount, log,
                   exitStatus, codecVars, filterVars, mainVars, decoderVars, history,
                   messageVars, compareVars>>

\* The summary after the loop: the known-transactions scans call
\* process.exit(1) when failCount is not 0; otherwise the function returns.
Summarize ==
    /\ phase = "scan"
    /\ cursor > Len(worklist)
    /\ IF script \in KnownScripts /\ failCount # 0
       THEN phase' = "exited" /\ exitStatus' = [kind |-> "exit", code |-> 1]
       ELSE phase' = "settled" /\ exitStatus' = exitStatus
    /\ UNCHANGED <<script, worklist, startup, cursor, passCount, failCount, skippedCount, log,
                   results, codecVars, filterVars, mainVars, decoderVars, history,
                   messageVars, compareVars>>

\* The handlers chained on the script's promise run and call process.exit.
ExitScript ==
    /\ phase \in {"settled", "caught"}
    /\ exitStatus' = (IF script = "test-filter" THEN testFilterExitCode(phase)
                      ELSE knownTxsExitCode(phase))
    /\ phase' = "exited"
    /\ UNCHANGED <<script, worklist, startup, cursor, passCount, failCount, skippedCount, log,
                   results, codecVars, filterVars, mainVars, decoderVars, history,
                   messageVars, compareVars>>

NextHarness ==
    \/ StartScript
    \/ ScanNextTransaction
    \/ TestNextBlock
    \/ Summarize
    \/ ExitScript

SpecHarness == InitHarness /\ [][NextHarness]_vars

\* The event loop runs a continuation once the promise it awaits has
\* settled, and every collaborator call of the model answers.
SpecHarnessFair == SpecHarness /\ WF_vars(NextHarness)

\* The RPC endpoint knows no transaction for the entry, or no slot for it.
NoTransactionOrSlot(txInfo) ==
    \/ txInfo.rpc = Null
    \/ "slot" \notin DOMAIN txInfo.rpc

\* The loop has reached the entry at position k and does not skip it.
Scanned(k) ==
    /\ k < cursor
    /\ script = "test-filter-with-known-txs" \/ isTestTransactionReady(worklist[k])

\* The counter increments recorded for the entry at position k.
IncrementsOf(k) == SelectSeq(log, LAMBDA e : e.item = k)

\* C22: a lookup that yields no transaction or no slot is an explicit
\* failure: getSlotFromSignature raises, and the known-transactions scan
\* counts the entry once, in failCount, with the error raised, so that the
\* summary shows it as failed and the script exits with 1.
C22_MissingTransactionIsFailure ==
    script \in KnownScripts =>
        /\ \A k \in 1..Len(worklist) :
               NoTransactionOrSlot(worklist[k]) =>
                   /\ getSlotFromSignature(worklist[k].signature, worklist[k].rpc).kind = "throw"
                   /\ Scanned(k) =>
                          IncrementsOf(k) =
                              <<Increment(k, "failCount",
                                          [kind |-> "throw",
                                           message |-> "Could not get slot for transaction: ",
                                           signature |-> worklist[k].signature])>>
        /\ (phase = "exited" /\ startup = "ok"
                /\ \E k \in 1..Len(worklist) : NoTransactionOrSlot(worklist[k]) /\ Scanned(k))
           => failCount > 0 /\ exitStatus.code = 1

\* A scan of two entries, the first found and passing, the second unknown to
\* the RPC endpoint: one pass, one failure, exit code 1.
C22_Witness ==
    /\ script = "test-filter-with-known-txs"
    /\ Len(worklist) = 2
    /\ worklist[1].rpc = RpcFound
    /\ worklist[2].rpc = Null
    /\ phase = "exited"
    /\ passCount = 1
    /\ failCount = 1
    /\ exitStatus.code = 1

\* C24: the batch scans process every item once and in order whatever fails
\* along the way: in the known-transactions scans passCount + failCount +
\* skippedCount is the number of entries processed (all of them at the end),
\* and test-filter holds one TestResult per requested block, in request
\* order.
C24_EveryItemRecordedOnce ==
    (phase \in {"scan", "settled", "exited"} /\ startup = "ok") =>
        /\ phase # "scan" => cursor = Len(worklist) + 1
        /\ script \in KnownScripts => passCount + failCount + skippedCount = cursor - 1
        /\ script = "test-filter" =>
               /\ Len(results) = cursor - 1
               /\ \A i \in 1..Len(results) : results[i].block = worklist[i].block

\* C29: test-filter ends with exit status 1 on every run: whether every block
\* succeeded, some block failed or a fatal error was caught, the run reaches
\* process.exit and the code it is given is 1.
C29_AlwaysExitsWithOne ==
    (script = "test-filter") ~> (phase = "exited" /\ exitStatus = [kind |-> "exit", code |-> 1])

\* Two blocks requested, both answered without error: exit code 1 all the same.
C29_Witness ==
    /\ script = "test-filter"
    /\ startup = "ok"
    /\ Len(worklist) = 2
    /\ Len(results) = 2
    /\ \A i \in 1..2 : "error" \notin DOMAIN results[i]
    /\ phase = "exited"
    /\ exitStatus = [kind |-> "exit", code |-> 1]

====
